---- MODULE Spec2Model ----
(***************************************************************************)
(* Verification model of xray-lite: the XHTTP/HTTP-2 dispatcher            *)
(* (src/src/transport/xhttp/h2.rs), the Reality TLS 1.3 handshake engine   *)
(* and authentication (src/src/transport/reality/handshake.rs, crypto.rs,  *)
(* auth.rs), the XDP classifier (src/xray-lite-ebpf/src/main.rs) with its  *)
(* loader (src/src/xdp.rs), the VLESS address codec                        *)
(* (src/src/protocol/vless/address.rs), and the connection manager         *)
(* (src/src/network/connection.rs).                                        *)
(*                                                                         *)
(* The specifications of the module:                                       *)
(*   SpecH2         - the stream handlers and the session registry         *)
(*   SpecConn       - the per-connection accept loop with its watchdog     *)
(*   SpecHs         - RealityHandshake::perform (SpecHsLive: scheduled)    *)
(*   SpecAuth       - RealityAuth::inject_auth_into_random                 *)
(*   SpecVerify     - RealityAuth::verify_client_auth                      *)
(*   SpecDec        - TlsKeys::decrypt_client_record                       *)
(*   SpecXdp        - try_xdp_firewall on a stream of packets              *)
(*   SpecSmp        - try_xdp_firewall running on several CPUs at once     *)
(*   SpecGc         - the garbage collection of RATE_LIMIT_MAP             *)
(*   SpecLoader     - start_xdp: load, attach, ALLOWED_PORTS               *)
(*   SpecUp         - the upstream task of handle_standalone               *)
(*   SpecStandalone - both tasks of handle_standalone                      *)
(*                    (SpecStandaloneLive: the downstream task scheduled)  *)
(*   SpecSplit      - send_split_data                                      *)
(*   SpecPad        - the X-Padding header of the three response paths     *)
(*   SpecAddr       - Address::encode and Address::decode                  *)
(*   SpecMgr        - ConnectionManager::handle_connection                 *)
(***************************************************************************)
EXTENDS Integers, Sequences, FiniteSets, TLC

(***************************************************************************)
(* Bounds of the model                                                     *)
(***************************************************************************)
\* number of HTTP/2 requests (stream tasks) handled in one run
NReq == 2
\* number of DATA chunks in one SplitUp POST body
MaxChunks == 2
\* bytes-read events one downstream pump performs
MaxDown == 1
\* POSTs that may be in their pairing wait at the same time
MaxWaiting == 1
\* HTTP/2 streams one connection accepts in one run
NStreams == 2
\* seconds by which one step of the clock advances time
TickSecs == 150
\* ChangeCipherSpec records a client sends before its Finished
MaxCcs == 2
\* SYN packets of one source counted in one window
MaxFlood == 52
\* inserts into a full RATE_LIMIT_MAP in one run
MaxInsertFails == 1
\* gRPC frames in one Standalone request body
MaxFrames == 2
\* bytes in the longest buffer handed to send_split_data
MaxSplitLen == 24577
\* SYNs the classifier counts for one source in one window of the GC model
MaxGcCount == 2
\* bytes the VLESS handler writes into the pipe of one Standalone stream
MaxDownBytes == 3

\* the longest zero padding of an inner plaintext, and the longest plaintext
\* of zero bytes only
MaxPadding == 3

\* how far beyond 255 bytes the longest domain name goes
MaxDomainExcess == 2

\* connections passed to one ConnectionManager
NConns == 3

\* CPUs that run the classifier at the same time
NCpus == 2

\* SYNs of the one source in the multi-CPU model
MaxSmpSyns == 52

(***************************************************************************)
(* Program constants                                                       *)
(***************************************************************************)
\* for _ in 0..40  (pairing wait)
PollBudget == 40
\* tokio::time::sleep(Duration::from_secs(300)) of the zombie watchdog
WatchdogSecs == 300
\* const ETH_P_IP: u16 = 0x0800
ETH_P_IP == 2048
\* const IPPROTO_TCP: u8 = 6
IPPROTO_TCP == 6
\* const IPPROTO_UDP: u8 = 17
IPPROTO_UDP == 17
\* const SYN_LIMIT_PER_SEC: u32 = 50
SYN_LIMIT_PER_SEC == 50
\* const NANOS_PER_SEC: u64 = 1_000_000_000
NANOS_PER_SEC == 1000000000
\* if msg_len > 65535  (the deframer of handle_standalone)
GrpcMaxMessage == 65535
\* u8::MAX: the longest domain a length byte can say (domain.len() as u8)
U8Max == 255
\* threshold_ns = now_ns.saturating_sub(180 * 1_000_000_000): the seconds
GcAgeSecs == 180
\* rng.gen_range(8192..16384): the smallest chunk_size
ChunkSizeMin == 8192
\* rng.gen_range(8192..16384): the exclusive upper end of chunk_size
ChunkSizeEnd == 16384

Req == 1..NReq

\* XhttpConfig.path, as a sequence of path segments
config_path == <<"x">>

\* request paths: two under the configured prefix, one outside it
Paths == { <<"x", "a">>, <<"x", "b">>, <<"y", "a">> }

Methods == {"GET", "POST", "PUT"}

\* user-agent header values, as token sequences (<<>>: header missing -> "")
UserAgents == { <<>>, <<"okhttp", "4">>, <<"Go-http-client", "2.0">> }

\* str::starts_with
StartsWith(s, prefix) ==
    /\ Len(s) >= Len(prefix)
    /\ SubSeq(s, 1, Len(prefix)) = prefix

\* str::contains, on token sequences
Contains(s, tok) == \E i \in 1..Len(s) : s[i] = tok

NoReq == [method |-> "-", path |-> <<>>, is_pc |-> FALSE]

VARIABLES
    \* ---- stream handlers and session registry (h2.rs) ----
    SESSIONS,           \* path -> 0 (absent) or the GET whose Session (sender) is stored
    req,                \* request of each stream task: method, path, is_pc
    pc,                 \* position of each stream task
    polls,              \* contains_key polls the pairing wait has done
    found,              \* the pairing wait's last poll result
    route,              \* the rule that routed the request
    upstream,           \* SplitDown: the spawned channel-to-pipe pump
    downstream,         \* SplitDown: the pipe-to-H2 pump
    chan,               \* SplitDown: chunks queued in the unbounded upload channel
    pipe,               \* SplitDown: chunks the upstream pump wrote into the duplex
    sent_log,           \* history: chunks the upload channel accepted, in send order
    transferred_bytes,  \* SplitDown: read events counted by the downstream pump
    tx,                 \* SplitUp: the GET whose sender this POST cloned
    body,               \* SplitUp: body chunks received so far
    \* ---- accept loop of one HTTP/2 connection (H2Handler::handle) ----
    loop_pc,            \* "top" of the loop, waiting in "select", or "closed"
    active_streams,     \* the AtomicUsize counter of running stream tasks
    is_idle,            \* the loop iteration's is_idle
    sleep_elapsed,      \* seconds the select's sleep(300 s) has been pending
    task,               \* the spawned stream tasks
    zero_for,           \* history: seconds active_streams has been zero in a row
    \* ---- RealityHandshake::perform ----
    hs_pc,              \* state of the handshake
    hs_result,          \* what perform returned: "none" yet, "Ok" or "Err"
    sent,               \* the records written to the peer, in order
    ch,                 \* the key share of the parsed ClientHello
    skipped,            \* ChangeCipherSpec records skipped so far
    last_rec,           \* the record the Finished loop processed last
    app_transcript,     \* the messages hashed for the application keys
    keys,               \* TlsKeys: server_iv and client_iv of the handshake keys
    cert_msg,           \* cert_msg: the Certificate message perform built
    dest_cert,          \* history: what fetch_certificate(config.dest) gives
    \* ---- RealityAuth::inject_auth_into_random ----
    auth_call,          \* the last call: its arguments and the random it returned
    \* ---- the XDP classifier (xray-lite-ebpf) ----
    RATE_LIMIT_MAP,     \* source IP -> RateLimitEntry, or no entry
    ktime,              \* bpf_ktime_get_ns()
    xdp_pkt,            \* the packet classified last
    verdict,            \* its verdict
    insert_fails,       \* history: inserts that found the map full
    syn_seen,           \* history: per source, the window that starts at its
                        \* first SYN, and the SYNs counted in it
    syn_window,         \* history: per source, the window that starts at its
                        \* first SYN whose entry was stored, and its SYNs
    \* ---- the upstream task of handle_standalone ----
    up_pc,              \* "IDLE", "READING" the body, "DONE" or "FAILED"
    up_is_grpc,         \* the is_grpc argument
    use_grpc_framing,   \* the AtomicBool
    first_chunk,        \* the task's first_chunk
    leftover,           \* the deframing buffer
    client_write,       \* the bytes written to the duplex pipe, in order
    server_io_open,     \* the handler still holds the other end of the pipe
    up_stream,          \* the bytes of the request body
    up_pos,             \* how many of them body.data() has delivered
    up_first,           \* history: length of the first chunk, -1 before it
    up_bad_len,         \* history: the msg_len that disabled gRPC mode, or -1
    traffic_counter,    \* the AtomicU64 traffic counter
    \* ---- the downstream task of handle_standalone ----
    down_pc,            \* "IDLE", in its "LOOP", "DONE" or "FAILED"
    handler_pos,        \* bytes the handler has written to server_io
    client_read,        \* bytes in the pipe the task has not read yet
    send_stream,        \* what the task handed to the HTTP/2 send stream
    down_log,           \* history: the chunks read_buf returned, in order
    \* ---- H2Handler::send_split_data ----
    split_pc,           \* "IDLE", in the "LOOP", returned "OK" or "ERR"
    split_src,          \* src: the bytes still in the buffer
    split_orig,         \* history: the buffer when the function was called
    split_sent,         \* the chunks handed to send_stream.send_data, in order
    split_counter,      \* the traffic counter
    split_counter0,     \* history: the counter when the function was called
    \* ---- the x-padding header of a 200 response ----
    pad_resp,           \* the response built last: handler, counter, padding length
    \* ---- the GC loop of the XDP loader ----
    gc_map,             \* RATE_LIMIT_MAP as the loader and the classifier share it
    gc_tick,            \* the instant of GcClock the run is at
    gc_pc,              \* "SLEEP", "ITER", "REMOVE", or "DONE" with a pass
    gc_uptime,          \* how the reads of the pass went
    threshold_ns,       \* threshold_ns of the pass
    gc_now,             \* history: now_ns of the pass
    gc_visited,         \* the keys the iteration has yielded
    keys_to_remove,     \* keys_to_remove
    gc_read,            \* history: last_time_ns of each key as the pass read it
    gc_removed,         \* history: the keys the pass removed
    \* ---- loader::start_xdp ----
    ld_pc,              \* where the loader task is
    ld_attached,        \* the XDP program is attached to the interface
    ld_ports,           \* the keys of ALLOWED_PORTS
    ld_next,            \* index of the next port the loop inserts
    ld_pkt,             \* the packet classified last, and the ports missing then
    \* ---- RealityAuth::verify_client_auth ----
    verify_call,        \* the last call: its arguments and what it returned
    \* ---- TlsKeys::decrypt_client_record ----
    dec_call,           \* the last call: its arguments and what it returned
    \* ---- Address::encode, Address::decode ----
    addr_pc,            \* EMPTY, ENCODED, RECEIVED, ROUNDTRIP, DECODED
    addr_self,          \* the address that was encoded
    addr_tail,          \* the bytes that followed it
    addr_buf,           \* buf: BytesMut
    addr_decoded,       \* what decode returned
    \* ---- ConnectionManager ----
    active_connections, \* AtomicUsize
    mgr_task,           \* per connection: the spawned relay task
    \* ---- try_xdp_firewall on several CPUs ----
    smp_entry,          \* the entry of the source in RATE_LIMIT_MAP
    cpu,                \* per CPU: where the program is, and what it has loaded
    smp_syns,           \* history: SYNs of the source that reached a CPU
    smp_passed,         \* history: SYNs of the source that got XDP_PASS
    smp_lost            \* history: a store wiped out the count of a SYN

varsH2 == << SESSIONS, req, pc, polls, found, route, upstream, downstream,
             chan, pipe, sent_log, transferred_bytes, tx, body >>

varsConn == << loop_pc, active_streams, is_idle, sleep_elapsed, task, zero_for >>

varsHs == << hs_pc, hs_result, sent, ch, skipped, last_rec, app_transcript,
            keys, cert_msg, dest_cert >>

varsAuth == << auth_call >>

varsXdp == << RATE_LIMIT_MAP, ktime, xdp_pkt, verdict, insert_fails, syn_seen,
             syn_window >>

varsDown == << down_pc, handler_pos, client_read, send_stream, down_log >>

varsUp == << up_pc, up_is_grpc, use_grpc_framing, first_chunk, leftover,
            client_write, server_io_open, up_stream, up_pos, up_first,
            up_bad_len, traffic_counter, varsDown >>

varsSplit == << split_pc, split_src, split_orig, split_sent, split_counter,
                split_counter0 >>

varsPad == << pad_resp >>

varsGc == << gc_map, gc_tick, gc_pc, gc_uptime, threshold_ns, gc_now,
             gc_visited, keys_to_remove, gc_read, gc_removed >>

varsLoader == << ld_pc, ld_attached, ld_ports, ld_next, ld_pkt >>

varsVerify == << verify_call >>

varsDec == << dec_call >>

varsAddr == << addr_pc, addr_self, addr_tail, addr_buf, addr_decoded >>

varsMgr == << active_connections, mgr_task >>

varsSmp == << smp_entry, cpu, smp_syns, smp_passed, smp_lost >>

vars == << varsH2, varsConn, varsHs, varsAuth, varsXdp, varsUp, varsSplit,
           varsPad, varsGc, varsLoader, varsVerify, varsDec, varsAddr,
           varsMgr, varsSmp >>

\* what the actions of one component leave alone: the other components
othersH2 == << varsConn, varsHs, varsAuth, varsXdp, varsUp, varsSplit,
               varsPad, varsGc, varsLoader, varsVerify, varsDec, varsAddr,
               varsMgr, varsSmp >>

othersConn == << varsH2, varsHs, varsAuth, varsXdp, varsUp, varsSplit,
                 varsPad, varsGc, varsLoader, varsVerify, varsDec, varsAddr,
                 varsMgr, varsSmp >>

othersHs == << varsH2, varsConn, varsAuth, varsXdp, varsUp, varsSplit,
               varsPad, varsGc, varsLoader, varsVerify, varsDec, varsAddr,
               varsMgr, varsSmp >>

othersAuth == << varsH2, varsConn, varsHs, varsXdp, varsUp, varsSplit,
                 varsPad, varsGc, varsLoader, varsVerify, varsDec, varsAddr,
                 varsMgr, varsSmp >>

othersXdp == << varsH2, varsConn, varsHs, varsAuth, varsUp, varsSplit,
                varsPad, varsGc, varsLoader, varsVerify, varsDec, varsAddr,
                varsMgr, varsSmp >>

othersUp == << varsH2, varsConn, varsHs, varsAuth, varsXdp, varsSplit,
               varsPad, varsGc, varsLoader, varsVerify, varsDec, varsAddr,
               varsMgr, varsSmp >>

othersSplit == << varsH2, varsConn, varsHs, varsAuth, varsXdp, varsUp,
                  varsPad, varsGc, varsLoader, varsVerify, varsDec, varsAddr,
                  varsMgr, varsSmp >>

othersPad == << varsH2, varsConn, varsHs, varsAuth, varsXdp, varsUp,
                varsSplit, varsGc, varsLoader, varsVerify, varsDec, varsAddr,
                varsMgr, varsSmp >>

othersGc == << varsH2, varsConn, varsHs, varsAuth, varsXdp, varsUp, varsSplit,
               varsPad, varsLoader, varsVerify, varsDec, varsAddr, varsMgr,
               varsSmp >>

othersLoader == << varsH2, varsConn, varsHs, varsAuth, varsXdp, varsUp,
                   varsSplit, varsPad, varsGc, varsVerify, varsDec, varsAddr,
                   varsMgr, varsSmp >>

othersVerify == << varsH2, varsConn, varsHs, varsAuth, varsXdp, varsUp,
                   varsSplit, varsPad, varsGc, varsLoader, varsDec, varsAddr,
                   varsMgr, varsSmp >>

othersDec == << varsH2, varsConn, varsHs, varsAuth, varsXdp, varsUp,
                varsSplit, varsPad, varsGc, varsLoader, varsVerify, varsAddr,
                varsMgr, varsSmp >>

othersAddr == << varsH2, varsConn, varsHs, varsAuth, varsXdp, varsUp,
                 varsSplit, varsPad, varsGc, varsLoader, varsVerify, varsDec,
                 varsMgr, varsSmp >>

othersMgr == << varsH2, varsConn, varsHs, varsAuth, varsXdp, varsUp,
                varsSplit, varsPad, varsGc, varsLoader, varsVerify, varsDec,
                varsAddr, varsSmp >>

othersSmp == << varsH2, varsConn, varsHs, varsAuth, varsXdp, varsUp,
                varsSplit, varsPad, varsGc, varsLoader, varsVerify, varsDec,
                varsAddr, varsMgr >>

Ended == {"ok", "err", "cancelled"}

InitH2 ==
    /\ SESSIONS = [p \in Paths |-> 0]
    /\ req = [r \in Req |-> NoReq]
    /\ pc = [r \in Req |-> "idle"]
    /\ polls = [r \in Req |-> 0]
    /\ found = [r \in Req |-> FALSE]
    /\ route = [r \in Req |-> "none"]
    /\ upstream = [r \in Req |-> "none"]
    /\ downstream = [r \in Req |-> "none"]
    /\ chan = [r \in Req |-> <<>>]
    /\ pipe = [r \in Req |-> <<>>]
    /\ sent_log = [r \in Req |-> <<>>]
    /\ transferred_bytes = [r \in Req |-> 0]
    /\ tx = [r \in Req |-> 0]
    /\ body = [r \in Req |-> 0]

(***************************************************************************)
(* Session registry: DashMap<String, Session>                              *)
(***************************************************************************)
\* DashMap::insert: stores the value under the key, replacing any old value
SessionsInsert(S, p, g) == [S EXCEPT ![p] = g]

\* DashMap::remove: removes whatever is stored under the key
SessionsRemove(S, p) == [S EXCEPT ![p] = 0]

\* DashMap::contains_key
SessionsContainsKey(S, p) == S[p] # 0

\* DashMap::get(..).map(|s| s.to_vless_tx.clone()): 0 is None
SessionsGet(S, p) == S[p]

\* A mutant of SessionGuardDrop: the guard forgets to remove the entry.
SessionGuardDropNoRemove(S, p) == S

\* impl Drop for SessionGuard: SESSIONS.remove(&self.path)
SessionGuardDrop(S, p) == SessionsRemove(S, p)

\* the receiver of g's upload channel is alive: it is owned by handle_xhttp_get
\* until the upstream pump is spawned, then by the pump until it ends
RxAlive(g) ==
    \/ pc[g] = "get_respond"
    \/ upstream[g] = "running"

\* some sender of g's upload channel is alive: the one stored in SESSIONS or a
\* clone held by a SplitUp POST
HasSender(g) ==
    \/ \E p \in Paths : SESSIONS[p] = g
    \/ \E r \in Req : tx[r] = g /\ pc[r] = "post_body"

(***************************************************************************)
(* handle_request: the first synchronous segment of a stream task          *)
(***************************************************************************)
\* A mutant of Dispatch: the method is tested before the path prefix.
DispatchMethodFirst(method, path) ==
    IF method = "GET" THEN "SplitDown"
    ELSE IF method = "POST" THEN "POST"
    ELSE IF ~StartsWith(path, config_path) THEN "404"
    ELSE "405"

\* the if / else-if chain of handle_request
Dispatch(method, path) ==
    IF ~StartsWith(path, config_path) THEN "404"
    ELSE IF method = "GET" THEN "SplitDown"
    ELSE IF method = "POST" THEN "POST"
    ELSE "405"

handle_request(r, method, path, ua) ==
    LET is_pc == Contains(ua, "Go-http-client")
        d == Dispatch(method, path)
    IN
    /\ pc[r] = "idle"
    /\ \A q \in Req : q < r => pc[q] # "idle"
    /\ (d = "POST" /\ ~is_pc) =>
           Cardinality({q \in Req : pc[q] = "poll"}) < MaxWaiting
    /\ req' = [req EXCEPT ![r] = [method |-> method, path |-> path,
                                  is_pc |-> (d = "POST" /\ is_pc)]]
    /\ CASE d = "404" ->
              \* send_error_response(NOT_FOUND), return
              /\ route' = [route EXCEPT ![r] = "404"]
              /\ \E res \in {"ok", "err"} : pc' = [pc EXCEPT ![r] = res]
              /\ UNCHANGED SESSIONS
         [] d = "405" ->
              /\ route' = [route EXCEPT ![r] = "405"]
              /\ \E res \in {"ok", "err"} : pc' = [pc EXCEPT ![r] = res]
              /\ UNCHANGED SESSIONS
         [] d = "SplitDown" ->
              \* handle_xhttp_get: channel, SESSIONS.insert, guard, duplex
              /\ route' = [route EXCEPT ![r] = "SplitDown"]
              /\ SESSIONS' = SessionsInsert(SESSIONS, path, r)
              /\ pc' = [pc EXCEPT ![r] = "get_respond"]
         [] d = "POST" ->
              /\ pc' = [pc EXCEPT ![r] = IF is_pc THEN "lookup" ELSE "poll"]
              /\ UNCHANGED << SESSIONS, route >>
    /\ UNCHANGED << polls, found, upstream, downstream, chan, pipe, sent_log,
                    transferred_bytes, tx, body >>

HandleRequest ==
    \E r \in Req, method \in Methods, path \in Paths, ua \in UserAgents :
        handle_request(r, method, path, ua)

(***************************************************************************)
(* handle_xhttp_get after the insert                                       *)
(***************************************************************************)
\* respond.send_response(response, false)?  then tokio::spawn(upstream)
GetRespond(r, sent_ok) ==
    /\ pc[r] = "get_respond"
    /\ IF sent_ok
       THEN /\ upstream' = [upstream EXCEPT ![r] = "running"]
            /\ downstream' = [downstream EXCEPT ![r] = "running"]
            /\ pc' = [pc EXCEPT ![r] = "get_down"]
            /\ UNCHANGED << SESSIONS, req, chan, sent_log >>
       ELSE \* early return: _guard and to_vless_rx are dropped
            /\ SESSIONS' = SessionGuardDrop(SESSIONS, req[r].path)
            /\ chan' = [chan EXCEPT ![r] = <<>>]
            /\ sent_log' = [sent_log EXCEPT ![r] = <<>>]
            /\ req' = [req EXCEPT ![r] = NoReq]
            /\ pc' = [pc EXCEPT ![r] = "err"]
            /\ UNCHANGED << upstream, downstream >>
    /\ UNCHANGED << polls, found, route, pipe, transferred_bytes, tx, body >>

\* downstream: read_buf returned n > 0, send_split_data succeeded
DownstreamPump(r) ==
    /\ pc[r] = "get_down"
    /\ downstream[r] = "running"
    /\ transferred_bytes[r] < MaxDown
    /\ transferred_bytes' = [transferred_bytes EXCEPT ![r] = @ + 1]
    /\ UNCHANGED << SESSIONS, req, pc, polls, found, route, upstream,
                    downstream, chan, pipe, sent_log, tx, body >>

\* downstream ends (EOF, read or send error, 300 s idle timeout); the handler
\* resumes after downstream.await: SESSIONS.remove(&path), then awaits up_handle
DownstreamEnds(r) ==
    /\ pc[r] = "get_down"
    /\ downstream[r] = "running"
    /\ downstream' = [downstream EXCEPT ![r] = "ended"]
    /\ SESSIONS' = SessionsRemove(SESSIONS, req[r].path)
    /\ pc' = [pc EXCEPT ![r] = "get_join"]
    /\ UNCHANGED << req, polls, found, route, upstream, chan, pipe, sent_log,
                    transferred_bytes, tx, body >>

\* A mutant of ChannelRecv: the newest chunk is taken first.
ChannelRecvLast(q) == q[Len(q)]

\* mpsc::UnboundedReceiver::recv: the oldest queued chunk
ChannelRecv(q) == Head(q)

\* the queue after recv
ChannelRest(q) == Tail(q)

\* mpsc::UnboundedSender::send: the chunk joins the queue at its end
ChannelSend(q, c) == Append(q, c)

\* upstream: Ok(Some(data)) => client_write.write_all(&data).await?
UpstreamRecv(r, write_ok) ==
    /\ upstream[r] = "running"
    /\ chan[r] # <<>>
    /\ IF write_ok
       THEN /\ pipe' = [pipe EXCEPT ![r] = Append(@, ChannelRecv(chan[r]))]
            /\ chan' = [chan EXCEPT ![r] = ChannelRest(@)]
            /\ UNCHANGED << upstream, sent_log >>
       ELSE \* write error: the pump returns, to_vless_rx is dropped
            /\ upstream' = [upstream EXCEPT ![r] = "ended"]
            /\ chan' = [chan EXCEPT ![r] = <<>>]
            /\ pipe' = [pipe EXCEPT ![r] = <<>>]
            /\ sent_log' = [sent_log EXCEPT ![r] = <<>>]
    /\ UNCHANGED << SESSIONS, req, pc, polls, found, route, downstream,
                    transferred_bytes, tx, body >>

\* upstream: Ok(None) => break  (channel empty and every sender dropped)
UpstreamClosed(r) ==
    /\ upstream[r] = "running"
    /\ chan[r] = <<>>
    /\ ~HasSender(r)
    /\ upstream' = [upstream EXCEPT ![r] = "ended"]
    /\ pipe' = [pipe EXCEPT ![r] = <<>>]
    /\ sent_log' = [sent_log EXCEPT ![r] = <<>>]
    /\ UNCHANGED << SESSIONS, req, pc, polls, found, route, downstream, chan,
                    transferred_bytes, tx, body >>

\* upstream: Err(_) => break  (nothing received for 300 s)
UpstreamIdleTimeout(r) ==
    /\ upstream[r] = "running"
    /\ chan[r] = <<>>
    /\ upstream' = [upstream EXCEPT ![r] = "ended"]
    /\ pipe' = [pipe EXCEPT ![r] = <<>>]
    /\ sent_log' = [sent_log EXCEPT ![r] = <<>>]
    /\ UNCHANGED << SESSIONS, req, pc, polls, found, route, downstream, chan,
                    transferred_bytes, tx, body >>

\* up_handle.await completes; return Ok(()) drops _guard
GetJoin(r) ==
    /\ pc[r] = "get_join"
    /\ upstream[r] = "ended"
    /\ SESSIONS' = SessionGuardDrop(SESSIONS, req[r].path)
    /\ pc' = [pc EXCEPT ![r] = "ok"]
    /\ req' = [req EXCEPT ![r] = NoReq]
    /\ transferred_bytes' = [transferred_bytes EXCEPT ![r] = 0]
    /\ UNCHANGED << polls, found, route, upstream, downstream, chan, pipe,
                    sent_log, tx, body >>

\* the handler task is dropped at one of its await points (downstream.await,
\* up_handle.await): _guard is dropped, the downstream future with it; the
\* spawned upstream task is detached and keeps running
GetCancel(r) ==
    /\ pc[r] \in {"get_down", "get_join"}
    /\ SESSIONS' = SessionGuardDrop(SESSIONS, req[r].path)
    /\ downstream' = [downstream EXCEPT ![r] = "ended"]
    /\ pc' = [pc EXCEPT ![r] = "cancelled"]
    /\ req' = [req EXCEPT ![r] = NoReq]
    /\ transferred_bytes' = [transferred_bytes EXCEPT ![r] = 0]
    /\ UNCHANGED << polls, found, route, upstream, chan, pipe, sent_log,
                    tx, body >>

(***************************************************************************)
(* handle_request, POST branch: pairing wait and lookup                    *)
(***************************************************************************)
\* A mutant of PollNext: the wait goes on after a poll found the path.
PollNextNoBreak(f, n) == IF n = PollBudget THEN "lookup" ELSE "poll"

\* position after the n-th poll returned f: break, next poll, or budget spent
PollNext(f, n) ==
    IF f THEN "lookup"
    ELSE IF n = PollBudget THEN "lookup"
    ELSE "poll"

\* one iteration of for _ in 0..40: contains_key, break or sleep 50 ms
Poll(r) ==
    /\ pc[r] = "poll"
    /\ polls[r] < PollBudget
    /\ LET f == SessionsContainsKey(SESSIONS, req[r].path)
       IN /\ found' = [found EXCEPT ![r] = f]
          /\ polls' = [polls EXCEPT ![r] = @ + 1]
          /\ pc' = [pc EXCEPT ![r] = PollNext(f, polls[r] + 1)]
    /\ UNCHANGED << SESSIONS, req, route, upstream, downstream, chan, pipe,
                    sent_log, transferred_bytes, tx, body >>

\* if let Some(tx) = session_tx { handle_xhttp_post } else { handle_standalone }
PairRoute(session_tx) == IF session_tx # 0 THEN "SplitUp" ELSE "Standalone"

\* let session_tx = SESSIONS.get(&path).map(|s| s.to_vless_tx.clone())
Lookup(r) ==
    /\ pc[r] = "lookup"
    /\ LET session_tx == SessionsGet(SESSIONS, req[r].path)
           rt == PairRoute(session_tx)
       IN /\ route' = [route EXCEPT ![r] = rt]
          /\ tx' = [tx EXCEPT ![r] = session_tx]
          /\ pc' = [pc EXCEPT ![r] = IF rt = "SplitUp" THEN "post_body"
                                     ELSE "standalone"]
    \* the loop's counter and its found are out of scope after the loop
    /\ polls' = [polls EXCEPT ![r] = 0]
    /\ found' = [found EXCEPT ![r] = FALSE]
    /\ UNCHANGED << SESSIONS, req, upstream, downstream, chan,
                    pipe, sent_log, transferred_bytes, body >>

(***************************************************************************)
(* handle_xhttp_post and handle_standalone                                 *)
(***************************************************************************)
\* body.data() yields a chunk; let _ = tx.send(chunk)
PostData(r) ==
    /\ pc[r] = "post_body"
    /\ body[r] < MaxChunks
    /\ body' = [body EXCEPT ![r] = @ + 1]
    /\ LET g == tx[r]
           chunk == << r, body[r] + 1 >>
       IN IF RxAlive(g)
          THEN /\ chan' = [chan EXCEPT ![g] = ChannelSend(@, chunk)]
               /\ sent_log' = [sent_log EXCEPT ![g] = Append(@, chunk)]
          ELSE \* send returns Err, which is ignored
               UNCHANGED << chan, sent_log >>
    /\ UNCHANGED << SESSIONS, req, pc, polls, found, route, upstream,
                    downstream, pipe, transferred_bytes, tx >>

\* the body ends (respond 200) or fails (chunk_res?); tx is dropped
PostEnd(r, res) ==
    /\ pc[r] = "post_body"
    /\ pc' = [pc EXCEPT ![r] = res]
    /\ req' = [req EXCEPT ![r] = NoReq]
    /\ polls' = [polls EXCEPT ![r] = 0]
    /\ found' = [found EXCEPT ![r] = FALSE]
    /\ tx' = [tx EXCEPT ![r] = 0]
    /\ body' = [body EXCEPT ![r] = 0]
    /\ UNCHANGED << SESSIONS, route, upstream, downstream, chan, pipe,
                    sent_log, transferred_bytes >>

\* handle_standalone runs to its end
StandaloneEnds(r, res) ==
    /\ pc[r] = "standalone"
    /\ pc' = [pc EXCEPT ![r] = res]
    /\ req' = [req EXCEPT ![r] = NoReq]
    /\ polls' = [polls EXCEPT ![r] = 0]
    /\ found' = [found EXCEPT ![r] = FALSE]
    /\ tx' = [tx EXCEPT ![r] = 0]
    /\ body' = [body EXCEPT ![r] = 0]
    /\ UNCHANGED << SESSIONS, route, upstream, downstream, chan, pipe,
                    sent_log, transferred_bytes >>

NextH2 ==
    \/ HandleRequest /\ UNCHANGED othersH2
    \/ \E r \in Req, b \in BOOLEAN : GetRespond(r, b) /\ UNCHANGED othersH2
    \/ \E r \in Req : DownstreamPump(r) /\ UNCHANGED othersH2
    \/ \E r \in Req : DownstreamEnds(r) /\ UNCHANGED othersH2
    \/ \E r \in Req, b \in BOOLEAN : UpstreamRecv(r, b) /\ UNCHANGED othersH2
    \/ \E r \in Req : UpstreamClosed(r) /\ UNCHANGED othersH2
    \/ \E r \in Req : UpstreamIdleTimeout(r) /\ UNCHANGED othersH2
    \/ \E r \in Req : GetJoin(r) /\ UNCHANGED othersH2
    \/ \E r \in Req : GetCancel(r) /\ UNCHANGED othersH2
    \/ \E r \in Req : Poll(r) /\ UNCHANGED othersH2
    \/ \E r \in Req : Lookup(r) /\ UNCHANGED othersH2
    \/ \E r \in Req : PostData(r) /\ UNCHANGED othersH2
    \/ \E r \in Req, res \in {"ok", "err"} : PostEnd(r, res) /\ UNCHANGED othersH2
    \/ \E r \in Req, res \in {"ok", "err"} : StandaloneEnds(r, res) /\ UNCHANGED othersH2

(***************************************************************************)
(* H2Handler::handle: the accept loop and its zombie watchdog               *)
(***************************************************************************)
Stream == 1..NStreams

\* the clock stops counting here
ClockCap == WatchdogSecs + 2 * TickSecs

InitConn ==
    /\ loop_pc = "top"
    /\ active_streams = 0
    /\ is_idle = FALSE
    /\ sleep_elapsed = 0
    /\ task = [s \in Stream |-> "none"]
    /\ zero_for = 0

\* A mutant of IsIdle: one running stream still counts as idle.
IsIdleAtMostOne(n) == n <= 1

\* let is_idle = active_streams.load(Ordering::Relaxed) == 0
IsIdle(n) == n = 0

\* top of the loop: is_idle is computed and select! creates its futures, the
\* sleep among them only if is_idle
LoopTop ==
    /\ loop_pc = "top"
    /\ is_idle' = IsIdle(active_streams)
    /\ sleep_elapsed' = 0
    /\ loop_pc' = "select"
    /\ UNCHANGED << active_streams, task, zero_for >>

\* connection.accept() => Some(Ok((request, respond))): fetch_add, spawn
AcceptStream(s) ==
    /\ loop_pc = "select"
    /\ task[s] = "none"
    /\ \A q \in Stream : q < s => task[q] # "none"
    /\ active_streams' = active_streams + 1
    /\ task' = [task EXCEPT ![s] = "running"]
    /\ zero_for' = 0
    /\ loop_pc' = "top"
    /\ UNCHANGED << is_idle, sleep_elapsed >>

\* connection.accept() => Some(Err(e)) or None: break
AcceptEnd ==
    /\ loop_pc = "select"
    /\ loop_pc' = "closed"
    /\ UNCHANGED << active_streams, is_idle, sleep_elapsed, task, zero_for >>

\* the sleep branch of select!, enabled only if is_idle: break
WatchdogFires ==
    /\ loop_pc = "select"
    /\ is_idle
    /\ sleep_elapsed >= WatchdogSecs
    /\ loop_pc' = "closed"
    /\ UNCHANGED << active_streams, is_idle, sleep_elapsed, task, zero_for >>

TaskEndsErrBreaks(s, res) ==
    /\ task[s] = "running"
    /\ task' = [task EXCEPT ![s] = res]
    /\ active_streams' = active_streams - 1
    /\ zero_for' = 0
    /\ loop_pc' = IF res = "err" THEN "closed" ELSE loop_pc
    /\ UNCHANGED << is_idle, sleep_elapsed >>

\* the spawned task: handle_request returned Ok or Err, then fetch_sub
TaskEnds(s, res) ==
    /\ task[s] = "running"
    /\ task' = [task EXCEPT ![s] = res]
    /\ active_streams' = active_streams - 1
    /\ zero_for' = 0
    /\ UNCHANGED << loop_pc, is_idle, sleep_elapsed >>

\* time passes while the loop waits in select!; a due sleep fires first
Tick ==
    /\ loop_pc = "select"
    /\ ~(is_idle /\ sleep_elapsed >= WatchdogSecs)
    /\ zero_for < ClockCap
    /\ sleep_elapsed' = IF is_idle THEN sleep_elapsed + TickSecs ELSE sleep_elapsed
    /\ zero_for' = IF active_streams = 0 THEN zero_for + TickSecs ELSE 0
    /\ UNCHANGED << loop_pc, active_streams, is_idle, task >>

NextConn ==
    \/ LoopTop /\ UNCHANGED othersConn
    \/ \E s \in Stream : AcceptStream(s) /\ UNCHANGED othersConn
    \/ AcceptEnd /\ UNCHANGED othersConn
    \/ WatchdogFires /\ UNCHANGED othersConn
    \/ \E s \in Stream, res \in {"ok", "err"} : TaskEnds(s, res) /\ UNCHANGED othersConn
    \/ Tick /\ UNCHANGED othersConn

(***************************************************************************)
(* RealityHandshake::perform                                               *)
(***************************************************************************)
\* what one read of read_client_hello can come to: the stream is at EOF, the
\* read fails, the buffer holds no full record yet, TlsRecord::parse fails,
\* the record is no Handshake record, ClientHello::parse fails, or a
\* ClientHello is parsed
ClientHelloReads ==
    {"eof", "io_error", "need_more", "record_error", "not_handshake",
     "parse_error", "client_hello"}

\* client_hello.get_key_share(): absent, or the bytes of the X25519 entry
KeyShares ==
    { [present |-> FALSE, len |-> 0],
      [present |-> TRUE, len |-> 16],
      [present |-> TRUE, len |-> 32] }

NoKeyShare == [present |-> FALSE, len |-> 0]

\* no ClientHello has been parsed yet
NoClientHello == [parsed |-> FALSE, present |-> FALSE, len |-> 0]

\* A mutant of KeyShareUsable: the handshake goes on without a key share.
KeyShareUsableAny(share) == TRUE

\* get_key_share() is Some(key) and derive_shared_secret accepts it: 32 bytes
KeyShareUsable(share) == share.present /\ share.len = 32

\* u64::to_be_bytes, on w bytes: the most significant byte first
RECURSIVE to_be_bytes(_, _)
to_be_bytes(n, w) ==
    IF w = 0 THEN << >> ELSE Append(to_be_bytes(n \div 256, w - 1), n % 256)

\* the ^ of two integers of w bits
RECURSIVE XorBits(_, _, _)
XorBits(a, b, w) ==
    IF w = 0 THEN 0
    ELSE ((a + b) % 2) + 2 * XorBits(a \div 2, b \div 2, w - 1)

\* u8 ^ u8
Xor8(a, b) == XorBits(a, b, 8)

\* u64::to_le_bytes, on w bytes: the least significant byte first
RECURSIVE to_le_bytes(_, _)
to_le_bytes(n, w) ==
    IF w = 0 THEN << >> ELSE << n % 256 >> \o to_le_bytes(n \div 256, w - 1)

\* A mutant of Nonce: the sequence number is written little-endian.
NonceLittleEndian(iv, seq) ==
    LET padded_seq == << 0, 0, 0, 0 >> \o to_le_bytes(seq, 8)
    IN [i \in 1..12 |-> Xor8(iv[i], padded_seq[i])]

\* padded_seq[4..].copy_from_slice(&seq.to_be_bytes());
\* for i in 0..12 { nonce_bytes[i] = iv[i] ^ padded_seq[i] }
Nonce(iv, seq) ==
    LET padded_seq == << 0, 0, 0, 0 >> \o to_be_bytes(seq, 8)
    IN [i \in 1..12 |-> Xor8(iv[i], padded_seq[i])]

\* 12-byte IVs the key schedule may derive
Ivs ==
    { << 1, 2, 3, 4, 5, 6, 7, 8, 9, 10, 11, 12 >>,
      << 255, 0, 170, 85, 0, 0, 0, 129, 0, 255, 1, 254 >> }

\* TlsKeys before derive_handshake_keys has run
NoKeys == [server_iv |-> << >>, client_iv |-> << >>]

\* plaintexts a client record may decrypt to: content, type byte, zero padding
Plains ==
    { <<20, 7, 22>>,        \* Finished
      <<20, 7, 22, 0, 0>>,  \* Finished, padded
      <<20, 22>>,           \* a Finished header byte alone
      <<22>>,               \* empty handshake content
      <<11, 7, 22>>,        \* another handshake message
      <<2, 40, 21>>,        \* alert
      <<20, 7, 23>>,        \* application data
      <<0, 0>>,             \* zeros only
      << >> }               \* empty

\* records the client may send after its ClientHello
ClientRecords ==
    { [outer |-> 20, key |-> "plain", seq |-> 0, plain |-> <<1>>] }
    \cup { [outer |-> 21, key |-> "plain", seq |-> 0, plain |-> <<2, 40>>] }
    \cup { [outer |-> 22, key |-> "plain", seq |-> 0, plain |-> <<20, 7>>] }
    \cup [outer : {21, 23}, key : {"c_hs", "other"}, seq : {0, 1}, plain : Plains]

NoRec == [outer |-> 0, key |-> "-", seq |-> 0, plain |-> << >>]

\* server_hello.encode(): the plaintext ServerHello record
ServerHelloRecord ==
    [outer |-> 22, key |-> "plain", seq |-> 0, nonce |-> << >>, inner |-> 22,
     msg |-> "ServerHello", over |-> << >>]

\* the dummy ChangeCipherSpec 14 03 03 00 01 01
CcsRecord ==
    [outer |-> 20, key |-> "plain", seq |-> 0, nonce |-> << >>, inner |-> 20,
     msg |-> "ChangeCipherSpec", over |-> << >>]

\* TlsKeys::encrypt_server_record: one record of outer type 23 sealed under
\* the server handshake key with the nonce of self.server_iv and seq; over is
\* the transcript a Finished message's verify_data was computed on
encrypt_server_record(self, seq, msg, over, content_type) ==
    [outer |-> 23, key |-> "s_hs", seq |-> seq,
     nonce |-> Nonce(self.server_iv, seq), inner |-> content_type,
     msg |-> msg, over |-> over]

\* transcript2: the messages hashed for the server Finished
Transcript2 == <<"ClientHello", "ServerHello", "EncryptedExtensions", "Certificate">>

\* transcript3: the messages hashed for the application keys
Transcript3 ==
    <<"ClientHello", "ServerHello", "EncryptedExtensions", "Certificate",
      "Finished", "ClientFinished">>

\* A mutant of Fail: an Alert record is written before the error is returned.
FailWithAlert(w) ==
    Append(w, [outer |-> 21, key |-> "plain", seq |-> 0, nonce |-> << >>,
               inner |-> 21, msg |-> "Alert", over |-> << >>])

\* return Err(..) and the ? operator: perform returns, nothing is written
Fail(w) == w

\* A mutant of ClientSeq: the sequence advances with every record received.
ClientSeqAdvancing(n) == n

\* the sequence number perform passes to decrypt_client_record after n
\* skipped records: the literal 0
ClientSeq(n) == 0

\* open_in_place: the tag verifies only under the key and the nonce of the
\* seal; the client sealed rec with the nonce of its sequence number rec.seq
AeadOpen(rec, key, iv, nonce) == rec.key = key /\ Nonce(iv, rec.seq) = nonce

\* while scan_idx > 0 && ciphertext[scan_idx] == 0 { scan_idx -= 1 }
RECURSIVE ScanIdx(_, _)
ScanIdx(plain, i) ==
    IF i > 1 /\ plain[i] = 0 THEN ScanIdx(plain, i - 1) ELSE i

DecryptErr == [ok |-> FALSE, ctype |-> 0, plen |-> 0]

\* TlsKeys::decrypt_client_record: (content_type, real_content_len) or Err
decrypt_client_record(self, seq, rec) ==
    IF ~AeadOpen(rec, "c_hs", self.client_iv, Nonce(self.client_iv, seq))
    THEN DecryptErr
    ELSE IF Len(rec.plain) = 0 THEN DecryptErr
    ELSE LET i == ScanIdx(rec.plain, Len(rec.plain))
         IN [ok |-> TRUE, ctype |-> rec.plain[i], plen |-> i - 1]

\* one full record in the Finished loop: "skip", "accept" or "fail"
FinishedLoop(self, rec, n) ==
    IF rec.outer = 20 THEN "skip"
    ELSE IF rec.outer = 21 THEN "fail"
    ELSE IF rec.outer = 23
         THEN LET d == decrypt_client_record(self, ClientSeq(n), rec)
              IN IF ~d.ok THEN "fail"
                 ELSE IF d.ctype # 22 THEN "fail"
                 ELSE IF d.plen > 0 /\ rec.plain[1] = 20 THEN "accept"
                 ELSE "fail"
    ELSE "fail"

\* cert_msg of perform: type 11, length 4, empty context, empty list
EmptyCertificate == << 11, 0, 0, 4, 0, 0, 0, 0 >>

\* a Certificate handshake message of the dest server, as fetch_certificate
\* returns it: type 11, length 9, empty context, a list with one short entry
DestCertificate == << 11, 0, 0, 9, 0, 0, 0, 5, 0, 0, 2, 48, 130 >>

NoFetch == [ok |-> FALSE, msg |-> << >>, asked |-> FALSE]

\* the outcomes of fetch_certificate(config.dest): Err, or Ok(message)
CertFetches ==
    { [ok |-> FALSE, msg |-> << >>, asked |-> TRUE],
      [ok |-> TRUE, msg |-> DestCertificate, asked |-> TRUE] }

InitHs ==
    /\ hs_pc = "WAIT_CH"
    /\ hs_result = "none"
    /\ sent = << >>
    /\ ch = NoClientHello
    /\ skipped = 0
    /\ last_rec = NoRec
    /\ app_transcript = << >>
    /\ keys = NoKeys
    /\ cert_msg = << >>
    /\ dest_cert = NoFetch

\* perform fails at the current step
Dead ==
    /\ hs_pc' = "DEAD"
    /\ hs_result' = "Err"
    /\ sent' = Fail(sent)

\* steps 1 to 6: read_client_hello, get_key_share, derive_shared_secret,
\* ServerHello::new_reality, modify_for_reality
ReadClientHello(in, share, sh_ok) ==
    /\ hs_pc = "WAIT_CH"
    /\ CASE in \in {"need_more", "not_handshake"} ->
              UNCHANGED << hs_pc, hs_result, sent, ch >>
         [] in \in {"eof", "io_error", "record_error", "parse_error"} ->
              Dead /\ UNCHANGED ch
         [] in = "client_hello" ->
              /\ ch' = [parsed |-> TRUE, present |-> share.present,
                        len |-> share.len]
              /\ IF ~KeyShareUsable(share) THEN Dead
                 ELSE IF ~sh_ok THEN Dead
                 ELSE /\ hs_pc' = "GOT_CH"
                      /\ UNCHANGED << hs_result, sent >>
    /\ UNCHANGED << skipped, last_rec, app_transcript, keys, cert_msg, dest_cert >>

\* client_stream.write_all(record).await? at position from
WriteStep(from, to, record, ok) ==
    /\ hs_pc = from
    /\ IF ok
       THEN /\ sent' = Append(sent, record)
            /\ hs_pc' = to
            /\ UNCHANGED hs_result
       ELSE Dead
    /\ UNCHANGED << ch, skipped, last_rec, app_transcript >>

\* 7. ServerHello
WriteServerHello(ok) ==
    /\ WriteStep("GOT_CH", "SENT_SH", ServerHelloRecord, ok)
    /\ UNCHANGED << keys, cert_msg, dest_cert >>

\* 7.5 dummy ChangeCipherSpec
WriteCcs(ok) ==
    /\ WriteStep("SENT_SH", "SENT_CCS", CcsRecord, ok)
    /\ UNCHANGED << keys, cert_msg, dest_cert >>

\* 8. TlsKeys::derive_handshake_keys, which yields the IVs server_iv and
\* client_iv; 9. EncryptedExtensions: keys.encrypt_server_record(0, &ee_msg, 22)
WriteEncryptedExtensions(server_iv, client_iv, ok) ==
    LET derived == [server_iv |-> server_iv, client_iv |-> client_iv]
    IN /\ keys' = derived
       /\ UNCHANGED << cert_msg, dest_cert >>
       /\ WriteStep("SENT_CCS", "SENT_EE",
              encrypt_server_record(derived, 0, "EncryptedExtensions", << >>, 22),
              ok)

\* 9.5 Certificate: cert_msg is built as the message with an empty
\* certificate_list, then keys.encrypt_server_record(1, &cert_msg, 22);
\* fetched: what the certificate fetcher gives for config.dest at this moment
\* (perform does not call it)
WriteCertificate(fetched, ok) ==
    /\ WriteStep("SENT_EE", "SENT_CERT",
              encrypt_server_record(keys, 1, "Certificate", << >>, 22), ok)
    /\ cert_msg' = EmptyCertificate
    /\ dest_cert' = fetched
    /\ UNCHANGED keys

\* 10. Finished: verify_data over transcript2, encrypt_server_record(2, ..)
WriteFinished(ok) ==
    /\ WriteStep("SENT_CERT", "SENT_FIN",
              encrypt_server_record(keys, 2, "Finished", Transcript2, 22), ok)
    /\ UNCHANGED << keys, cert_msg, dest_cert >>

\* 11. the Finished loop reads EOF or fails to read
ReadRecordFails ==
    /\ hs_pc = "SENT_FIN"
    /\ Dead
    /\ last_rec' = NoRec
    /\ UNCHANGED << ch, skipped, app_transcript, keys, cert_msg, dest_cert >>

\* 11. the Finished loop has one full record; 12. application keys
ReadRecord(rec) ==
    /\ hs_pc = "SENT_FIN"
    /\ last_rec' = rec
    /\ LET step == FinishedLoop(keys, rec, skipped)
       IN CASE step = "skip" ->
                 /\ skipped < MaxCcs
                 /\ skipped' = skipped + 1
                 /\ UNCHANGED << hs_pc, hs_result, sent, app_transcript >>
            [] step = "fail" ->
                 /\ Dead
                 /\ UNCHANGED << skipped, app_transcript >>
            [] step = "accept" ->
                 /\ hs_pc' = "APP_READY"
                 /\ hs_result' = "Ok"
                 /\ app_transcript' = Transcript3
                 /\ UNCHANGED << sent, skipped >>
    /\ UNCHANGED << ch, keys, cert_msg, dest_cert >>

NextHs ==
    \/ \E in \in ClientHelloReads, share \in KeyShares, sh_ok \in BOOLEAN :
          ReadClientHello(in, share, sh_ok) /\ UNCHANGED othersHs
    \/ \E ok \in BOOLEAN : WriteServerHello(ok) /\ UNCHANGED othersHs
    \/ \E ok \in BOOLEAN : WriteCcs(ok) /\ UNCHANGED othersHs
    \/ \E server_iv \in Ivs, client_iv \in Ivs, ok \in BOOLEAN :
          WriteEncryptedExtensions(server_iv, client_iv, ok) /\ UNCHANGED othersHs
    \/ \E fetched \in CertFetches, ok \in BOOLEAN :
          WriteCertificate(fetched, ok) /\ UNCHANGED othersHs
    \/ \E ok \in BOOLEAN : WriteFinished(ok) /\ UNCHANGED othersHs
    \/ ReadRecordFails /\ UNCHANGED othersHs
    \/ \E rec \in ClientRecords : ReadRecord(rec) /\ UNCHANGED othersHs

(***************************************************************************)
(* RealityAuth: the authentication tag in the ServerHello random            *)
(***************************************************************************)
\* a byte string of n bytes made from the seed k
Bytes(k, n) == [i \in 1..n |-> (k * i + (i * i) \div 3) % 256]

\* RealityAuth.private_key_bytes: 32 bytes
PrivateKeys == { Bytes(k, 32) : k \in {5, 77, 200} }

\* the random of the ClientHello
ClientRandoms == { Bytes(k, 32) : k \in {1, 9, 64, 131, 255} }

\* the random the ServerHello was built with: perform's temp_random of zeros
\* and others, two of which differ in their last 12 bytes only
OriginalRandoms ==
    { [i \in 1..32 |-> 0] }
    \cup { Bytes(k, 32) : k \in {3, 17, 42, 99, 180} }
    \cup { [i \in 1..32 |-> IF i <= 20 THEN Bytes(42, 32)[i] ELSE t] : t \in {0, 255} }

\* the position-weighted sum of the bytes j..Len(m) of m
RECURSIVE WeightedSum(_, _, _)
WeightedSum(m, j, w) ==
    IF j > Len(m) THEN 0
    ELSE (m[j] * (w + 2 * j + 1) + WeightedSum(m, j + 1, w)) % 65536

\* hmac::sign(&Key::new(HMAC_SHA256, key), msg): a 32-byte tag that depends
\* on the key and on every byte of the message and its position (the digest
\* itself is replaced by a keyed checksum)
hmac_sign(key, msg) ==
    [i \in 1..32 |->
        (WeightedSum(key, 1, 7 * i) + WeightedSum(msg, 1, 3 * i + Len(msg))) % 256]

\* A mutant of generate_auth_tag: the client random is hashed first.
generate_auth_tag_client_first(self, client_random, server_random_20) ==
    hmac_sign(self, client_random \o server_random_20)

\* RealityAuth::generate_auth_tag: msg = server_random_20 ++ client_random
generate_auth_tag(self, client_random, server_random_20) ==
    hmac_sign(self, server_random_20 \o client_random)

\* RealityAuth::inject_auth_into_random
inject_auth_into_random(self, original_random, client_random) ==
    LET auth_tag == generate_auth_tag(self, client_random,
                                      SubSeq(original_random, 1, 20))
    IN SubSeq(original_random, 1, 20) \o SubSeq(auth_tag, 1, 12)

NoCall == [private_key |-> << >>, client_random |-> << >>,
           original_random |-> << >>, modified_random |-> << >>]

InitAuth == auth_call = NoCall

\* the call of inject_auth_into_random that modify_for_reality makes for one
\* ServerHello
InjectAuth(self, original_random, client_random) ==
    /\ auth_call = NoCall
    /\ auth_call' = [private_key |-> self,
                     client_random |-> client_random,
                     original_random |-> original_random,
                     modified_random |->
                         inject_auth_into_random(self, original_random,
                                                 client_random)]

NextAuth ==
    \E self \in PrivateKeys, original_random \in OriginalRandoms,
       client_random \in ClientRandoms :
        InjectAuth(self, original_random, client_random) /\ UNCHANGED othersAuth

(***************************************************************************)
(* The XDP classifier: try_xdp_firewall                                    *)
(***************************************************************************)
\* ALLOWED_PORTS as the loader populated it: the protected ports
ALLOWED_PORTS == {443}

\* destination ports of the packets: a protected one and another
Ports == {443, 80}

\* source addresses: one that sends SYNs to the protected port, and another
FloodIp == 1

OtherIp == 2

SrcIps == {FloodIp, OtherIp}

\* TCP flag bytes: SYN, SYN+ACK, ACK, SYN+FIN, SYN+RST, SYN+ECE+CWR
TcpFlags == {2, 18, 16, 3, 6, 194}

\* the packets: not IPv4, cut short before the transport header ends, ICMP,
\* UDP and TCP
Packets ==
    { [etype |-> 34525, truncated |-> FALSE, protocol |-> IPPROTO_TCP,
       dest |-> 443, flags |-> 2, saddr |-> FloodIp] }
    \cup { [etype |-> ETH_P_IP, truncated |-> TRUE, protocol |-> IPPROTO_TCP,
            dest |-> 443, flags |-> 2, saddr |-> FloodIp] }
    \cup { [etype |-> ETH_P_IP, truncated |-> FALSE, protocol |-> 1,
            dest |-> 443, flags |-> 0, saddr |-> FloodIp] }
    \cup [etype : {ETH_P_IP}, truncated : {FALSE}, protocol : {IPPROTO_UDP},
          dest : Ports, flags : {0}, saddr : {FloodIp}]
    \cup [etype : {ETH_P_IP}, truncated : {FALSE}, protocol : {IPPROTO_TCP},
          dest : Ports, flags : TcpFlags, saddr : {FloodIp}]
    \cup [etype : {ETH_P_IP}, truncated : {FALSE}, protocol : {IPPROTO_TCP},
          dest : {80}, flags : {2, 3}, saddr : {OtherIp}]

NoPkt == [etype |-> 0, truncated |-> FALSE, protocol |-> 0, dest |-> 0,
          flags |-> 0, saddr |-> 0]

\* values of bpf_ktime_get_ns(): the start, one second later, and beyond
Times == {0, NANOS_PER_SEC, NANOS_PER_SEC + 1}

\* RATE_LIMIT_MAP.get_ptr_mut(&src_ip) == None
NoEntry == [present |-> FALSE, last_time_ns |-> 0, count |-> 0]

\* RateLimitEntry { last_time_ns, count }
RateLimitEntry(last_time_ns, count) ==
    [present |-> TRUE, last_time_ns |-> last_time_ns, count |-> count]

\* the & of two integers of w bits
RECURSIVE AndBits(_, _, _)
AndBits(a, b, w) ==
    IF w = 0 THEN 0
    ELSE ((a % 2) * (b % 2)) + 2 * AndBits(a \div 2, b \div 2, w - 1)

\* u8 & u8
And8(a, b) == AndBits(a, b, 8)

\* Ok(xdp_action::XDP_PASS) with the map as it is then
XdpPass(map) == [verdict |-> "PASS", map |-> map]

\* Ok(xdp_action::XDP_DROP)
XdpDrop(map) == [verdict |-> "DROP", map |-> map]

\* A mutant of OverLimit: the limit itself is over the limit.
OverLimitInclusive(count) == count >= SYN_LIMIT_PER_SEC

\* entry.count > SYN_LIMIT_PER_SEC
OverLimit(count) == count > SYN_LIMIT_PER_SEC

\* A mutant of TcpProtected: every packet with SYN set is counted, with or
\* without ACK.
TcpProtectedAnySyn(pkt, map, now, room) ==
    LET flags == pkt.flags
        src_ip == pkt.saddr
        entry == map[src_ip]
    IN IF And8(flags, 3) = 3 THEN XdpDrop(map)
       ELSE IF And8(flags, 6) = 6 THEN XdpDrop(map)
       ELSE IF And8(flags, 2) # 0
       THEN IF entry.present
            THEN IF now > entry.last_time_ns + NANOS_PER_SEC
                 THEN XdpPass([map EXCEPT ![src_ip] = RateLimitEntry(now, 1)])
                 ELSE LET counted ==
                              [map EXCEPT ![src_ip] =
                                  RateLimitEntry(entry.last_time_ns, entry.count + 1)]
                      IN IF OverLimit(entry.count + 1)
                         THEN XdpDrop(counted)
                         ELSE XdpPass(counted)
            ELSE IF room
                 THEN XdpPass([map EXCEPT ![src_ip] = RateLimitEntry(now, 1)])
                 ELSE XdpPass(map)
       ELSE XdpPass(map)

\* the logic for protected ports: illegal flags, then the SYN rate limit;
\* room tells whether the map has room for one more entry (when it holds
\* max_entries entries, insert fails and its result is dropped)
TcpProtected(pkt, map, now, room) ==
    LET flags == pkt.flags
        src_ip == pkt.saddr
        entry == map[src_ip]
    IN IF And8(flags, 3) = 3 THEN XdpDrop(map)
       ELSE IF And8(flags, 6) = 6 THEN XdpDrop(map)
       ELSE IF And8(flags, 2) # 0 /\ And8(flags, 16) = 0
       THEN IF entry.present
            THEN IF now > entry.last_time_ns + NANOS_PER_SEC
                 THEN XdpPass([map EXCEPT ![src_ip] = RateLimitEntry(now, 1)])
                 ELSE LET counted ==
                              [map EXCEPT ![src_ip] =
                                  RateLimitEntry(entry.last_time_ns, entry.count + 1)]
                      IN IF OverLimit(entry.count + 1)
                         THEN XdpDrop(counted)
                         ELSE XdpPass(counted)
            ELSE IF room
                 THEN XdpPass([map EXCEPT ![src_ip] = RateLimitEntry(now, 1)])
                 ELSE XdpPass(map)
       ELSE XdpPass(map)

\* A mutant of try_xdp_firewall: the flags and the rate limit are applied to
\* TCP packets before the destination port is looked up.
try_xdp_firewall_port_last(pkt, map, now, room) ==
    IF pkt.truncated THEN XdpPass(map)
    ELSE IF pkt.etype # ETH_P_IP THEN XdpPass(map)
    ELSE IF pkt.protocol = IPPROTO_UDP
         THEN IF pkt.dest \in ALLOWED_PORTS THEN XdpDrop(map) ELSE XdpPass(map)
    ELSE IF pkt.protocol = IPPROTO_TCP
         THEN LET r == TcpProtected(pkt, map, now, room)
              IN IF r.verdict = "DROP" THEN r
                 ELSE IF pkt.dest \notin ALLOWED_PORTS THEN XdpPass(r.map)
                 ELSE r
    ELSE XdpPass(map)

\* try_xdp_firewall: the verdict and the map after the packet
try_xdp_firewall(pkt, map, now, room) ==
    IF pkt.truncated THEN XdpPass(map)
    ELSE IF pkt.etype # ETH_P_IP THEN XdpPass(map)
    ELSE IF pkt.protocol = IPPROTO_UDP
         THEN IF pkt.dest \in ALLOWED_PORTS THEN XdpDrop(map) ELSE XdpPass(map)
    ELSE IF pkt.protocol = IPPROTO_TCP
         THEN IF pkt.dest \notin ALLOWED_PORTS THEN XdpPass(map)
              ELSE TcpProtected(pkt, map, now, room)
    ELSE XdpPass(map)

\* a new-connection attempt to a protected port: SYN set, ACK unset, neither
\* FIN nor RST
IsCountedSyn(pkt) ==
    /\ ~pkt.truncated
    /\ pkt.etype = ETH_P_IP
    /\ pkt.protocol = IPPROTO_TCP
    /\ pkt.dest \in ALLOWED_PORTS
    /\ pkt.flags \in {2, 194}

NoWindow == [start |-> 0, n |-> 0]

\* the window of a source after one more SYN at time now
WindowAfter(w, now) ==
    IF w.n = 0 \/ now > w.start + NANOS_PER_SEC
    THEN [start |-> now, n |-> 1]
    ELSE [start |-> w.start, n |-> w.n + 1]

InitXdp ==
    /\ RATE_LIMIT_MAP = [ip \in SrcIps |-> NoEntry]
    /\ ktime = 0
    /\ xdp_pkt = NoPkt
    /\ verdict = "none"
    /\ insert_fails = 0
    /\ syn_seen = [ip \in SrcIps |-> NoWindow]
    /\ syn_window = [ip \in SrcIps |-> NoWindow]

\* the program runs on one packet
XdpPacket(pkt, room) ==
    LET r == try_xdp_firewall(pkt, RATE_LIMIT_MAP, ktime, room)
        ip == pkt.saddr
        counted == IsCountedSyn(pkt)
        full == counted /\ ~RATE_LIMIT_MAP[ip].present /\ ~room
    IN /\ counted => WindowAfter(syn_seen[ip], ktime).n <= MaxFlood
       /\ full => insert_fails < MaxInsertFails
       /\ ~room => full
       /\ RATE_LIMIT_MAP' = r.map
       /\ verdict' = r.verdict
       /\ xdp_pkt' = pkt
       /\ insert_fails' = IF full THEN insert_fails + 1 ELSE insert_fails
       /\ syn_seen' = IF counted
                       THEN [syn_seen EXCEPT ![ip] = WindowAfter(@, ktime)]
                       ELSE syn_seen
       /\ syn_window' = IF counted /\ ~full
                         THEN [syn_window EXCEPT ![ip] = WindowAfter(@, ktime)]
                         ELSE syn_window
       /\ UNCHANGED ktime

\* time passes between two packets
XdpTick(t) ==
    /\ t > ktime
    /\ ktime' = t
    /\ UNCHANGED << RATE_LIMIT_MAP, xdp_pkt, verdict, insert_fails, syn_seen,
                    syn_window >>

NextXdp ==
    \/ \E pkt \in Packets, room \in BOOLEAN :
          XdpPacket(pkt, room) /\ UNCHANGED othersXdp
    \/ \E t \in Times : XdpTick(t) /\ UNCHANGED othersXdp

(***************************************************************************)
(* H2Handler::send_split_data (h2.rs)                                      *)
(***************************************************************************)
\* the draws of rng.gen_range(8192..16384) the model takes
ChunkSizes ==
    { ChunkSizeMin, ChunkSizeMin + 1, 12288, ChunkSizeEnd - 1 }

\* lengths of the buffers handed to send_split_data
SrcLens ==
    { 0, 1, ChunkSizeMin - 1, ChunkSizeMin, ChunkSizeMin + 1,
      ChunkSizeEnd - 1, ChunkSizeEnd, MaxSplitLen }

\* the content of a buffer of n bytes
SrcBytes(n) == [i \in 1..n |-> (i * 7 + i \div 256) % 256]

\* values of the traffic counter when send_split_data is called
CounterStarts == { 0, 1048576 }

SplitOnceCountsDraw(buf, chunk_size) ==
    LET split_len == IF Len(buf) < chunk_size THEN Len(buf) ELSE chunk_size
    IN  [chunk |-> SubSeq(buf, 1, split_len),
         rest |-> SubSeq(buf, split_len + 1, Len(buf)),
         counted |-> chunk_size]

\* one iteration of while src.has_remaining(): split_len = min(len, chunk_size),
\* counter.fetch_add(split_len), chunk = src.split_to(split_len)
SplitOnce(buf, chunk_size) ==
    LET split_len == IF Len(buf) < chunk_size THEN Len(buf) ELSE chunk_size
    IN  [chunk |-> SubSeq(buf, 1, split_len),
         rest |-> SubSeq(buf, split_len + 1, Len(buf)),
         counted |-> split_len]

InitSplit ==
    /\ split_pc = "IDLE"
    /\ split_src = << >>
    /\ split_orig = << >>
    /\ split_sent = << >>
    /\ split_counter = 0
    /\ split_counter0 = 0

\* send_split_data(src, send_stream, counter) is called
SplitCall(n, c) ==
    /\ split_pc = "IDLE"
    /\ split_pc' = "LOOP"
    /\ split_src' = SrcBytes(n)
    /\ split_orig' = SrcBytes(n)
    /\ split_counter' = c
    /\ split_counter0' = c
    /\ UNCHANGED split_sent

\* one iteration of the loop; ok: send_stream.send_data(chunk, false) succeeds
SplitStep(chunk_size, ok) ==
    /\ split_pc = "LOOP"
    /\ Len(split_src) > 0
    /\ LET r == SplitOnce(split_src, chunk_size)
       IN  /\ split_counter' = split_counter + r.counted
           /\ split_src' = r.rest
           /\ split_sent' = IF ok THEN Append(split_sent, r.chunk)
                            ELSE split_sent
           /\ split_pc' = IF ok THEN "LOOP" ELSE "ERR"
    /\ UNCHANGED << split_orig, split_counter0 >>

\* src.has_remaining() is false: Ok(())
SplitReturn ==
    /\ split_pc = "LOOP"
    /\ Len(split_src) = 0
    /\ split_pc' = "OK"
    /\ UNCHANGED << split_src, split_orig, split_sent, split_counter,
                    split_counter0 >>

NextSplit ==
    \/ \E n \in SrcLens, c \in CounterStarts :
          SplitCall(n, c) /\ UNCHANGED othersSplit
    \/ \E chunk_size \in ChunkSizes, ok \in BOOLEAN :
          SplitStep(chunk_size, ok) /\ UNCHANGED othersSplit
    \/ SplitReturn /\ UNCHANGED othersSplit

(***************************************************************************)
(* The upstream task of H2Handler::handle_standalone (h2.rs)               *)
(***************************************************************************)
\* u32::from_be_bytes([b[1], b[2], b[3], b[4]])
from_be_bytes(b) == ((b[1] * 256 + b[2]) * 256 + b[3]) * 256 + b[4]

\* one gRPC frame: flag byte, u32 big-endian length, payload
Frame(flag, payload) == << flag >> \o to_be_bytes(Len(payload), 4) \o payload

\* message payloads of the request bodies; one of them looks like a header
FramePayloads == { << >>, << 65 >>, << 1, 0 >> }

Frames == { Frame(flag, payload) : flag \in {0, 1}, payload \in FramePayloads }

\* the bodies made of at most n complete frames
RECURSIVE FrameSeqs(_)
FrameSeqs(n) ==
    IF n = 0 THEN { << >> }
    ELSE FrameSeqs(n - 1)
            \cup { s \o f : s \in FrameSeqs(n - 1), f \in Frames }

\* the start of a frame that declares a long message: its header and the
\* first two bytes of its payload
LongFrameStart(msg_len) == << 0 >> \o to_be_bytes(msg_len, 4) \o << 65, 66 >>

\* declared lengths around the two limits, 64 KiB and 16 MiB
LongLengths == { 65535, 65536, 16777216, 16777217 }

LongBodies ==
    { LongFrameStart(n) : n \in LongLengths }
        \cup { Frame(0, << 65 >>) \o LongFrameStart(65536) }

\* bodies that are no gRPC frames: their first byte is neither 0 nor 1
RawBodies ==
    { << 71, 69, 84, 32, 47, 49 >>,
      << 2, 0, 0, 0, 1, 65 >>,
      << 22, 3, 1, 0, 0, 1, 65 >> }

Bodies == FrameSeqs(MaxFrames) \cup LongBodies \cup RawBodies

\* client_write.write_all(data): writing nothing succeeds; writing to a pipe
\* whose other end was dropped fails
write_all(written, data, open) ==
    IF Len(data) = 0 THEN [ok |-> TRUE, written |-> written]
    ELSE IF open THEN [ok |-> TRUE, written |-> written \o data]
    ELSE [ok |-> FALSE, written |-> written]

FirstByteNotGrpcLong(chunk) ==
    Len(chunk) > 1 /\ chunk[1] # 0 /\ chunk[1] # 1

\* len > 0 && chunk[0] != 0x00 && chunk[0] != 0x01
FirstByteNotGrpc(chunk) ==
    Len(chunk) > 0 /\ chunk[1] # 0 /\ chunk[1] # 1

\* while leftover.len() >= 5 { ... }
RECURSIVE DeframeLoop(_, _, _)
DeframeLoop(buf, written, open) ==
    IF Len(buf) < 5
    THEN [leftover |-> buf, written |-> written, grpc |-> TRUE, ok |-> TRUE,
          bad_len |-> -1]
    ELSE LET msg_len == from_be_bytes(SubSeq(buf, 2, 5))
         IN  IF msg_len > GrpcMaxMessage
             THEN LET w == write_all(written, buf, open)
                  IN  [leftover |-> IF w.ok THEN << >> ELSE buf,
                       written |-> w.written, grpc |-> FALSE, ok |-> w.ok,
                       bad_len |-> msg_len]
             ELSE IF Len(buf) >= 5 + msg_len
             THEN LET data == SubSeq(buf, 6, 5 + msg_len)
                      rest == SubSeq(buf, 6 + msg_len, Len(buf))
                      w == write_all(written, data, open)
                  IN  IF w.ok THEN DeframeLoop(rest, w.written, open)
                      ELSE [leftover |-> rest, written |-> w.written,
                            grpc |-> TRUE, ok |-> FALSE, bad_len |-> -1]
             ELSE [leftover |-> buf, written |-> written, grpc |-> TRUE,
                   ok |-> TRUE, bad_len |-> -1]

\* one iteration of the while let loop, on the chunk body.data() delivered
UpLoopBody(chunk, first, grpc, buf, written, open) ==
    LET checked == first /\ grpc
        grpc1 == IF checked /\ FirstByteNotGrpc(chunk) THEN FALSE ELSE grpc
        first1 == IF checked THEN FALSE ELSE first
    IN  IF grpc1
        THEN LET d == DeframeLoop(buf \o chunk, written, open)
             IN  [first_chunk |-> first1, grpc |-> d.grpc,
                  leftover |-> d.leftover, written |-> d.written,
                  ok |-> d.ok, bad_len |-> d.bad_len]
        ELSE LET w == write_all(written, chunk, open)
             IN  [first_chunk |-> first1, grpc |-> FALSE, leftover |-> buf,
                  written |-> w.written, ok |-> w.ok, bad_len |-> -1]

\* the concatenation of a sequence of chunks
RECURSIVE Concat(_)
Concat(chunks) ==
    IF Len(chunks) = 0 THEN << >>
    ELSE Concat(SubSeq(chunks, 1, Len(chunks) - 1)) \o chunks[Len(chunks)]

\* the whole of send_split_data: the chunks it hands to send_data, one draw
\* of chunk_size for each
RECURSIVE send_split_data(_, _)
send_split_data(buf, draws) ==
    IF Len(buf) = 0 THEN << >>
    ELSE LET r == SplitOnce(buf, Head(draws))
         IN  << r.chunk >> \o send_split_data(r.rest, Tail(draws))

\* the draws one call takes for the short buffers of this model
DrawSeqs == { << c >> : c \in ChunkSizes }

\* the bytes the VLESS handler writes into server_io
HandlerOut == [i \in 1..MaxDownBytes |-> 10 * i]

\* send_stream.send_data(chunk, end_of_stream)
DataFrame(chunk, end_of_stream) ==
    [kind |-> "data", bytes |-> chunk, end_stream |-> end_of_stream]

\* send_stream.send_trailers({grpc-status: 0})
GrpcStatusTrailers ==
    [kind |-> "trailers", bytes |-> << "grpc-status", "0" >>,
     end_stream |-> TRUE]

\* request bodies of the streams whose two directions are modelled together
StandaloneBodies ==
    { << >>, Frame(0, << 65 >>), << 71, 69 >>, LongFrameStart(65536) }

InitDown ==
    /\ down_pc = "IDLE"
    /\ handler_pos = 0
    /\ client_read = << >>
    /\ send_stream = << >>
    /\ down_log = << >>

InitUp ==
    /\ up_pc = "IDLE"
    /\ up_is_grpc = FALSE
    /\ use_grpc_framing = FALSE
    /\ first_chunk = TRUE
    /\ leftover = << >>
    /\ client_write = << >>
    /\ server_io_open = TRUE
    /\ up_stream = << >>
    /\ up_pos = 0
    /\ up_first = -1
    /\ up_bad_len = -1
    /\ traffic_counter = 0
    /\ InitDown

\* handle_standalone is called for a request with this body
UpStart(is_grpc, stream) ==
    /\ up_pc = "IDLE"
    /\ up_pc' = "READING"
    /\ up_is_grpc' = is_grpc
    /\ use_grpc_framing' = is_grpc
    /\ up_stream' = stream
    /\ down_pc' = "LOOP"
    /\ UNCHANGED << first_chunk, leftover, client_write, server_io_open,
                    up_pos, up_first, up_bad_len, traffic_counter,
                    handler_pos, client_read, send_stream, down_log >>

\* body.data() delivers the next k bytes as one chunk
UpChunk(k) ==
    /\ up_pc = "READING"
    /\ up_pos + k <= Len(up_stream)
    /\ LET chunk == SubSeq(up_stream, up_pos + 1, up_pos + k)
           r == UpLoopBody(chunk, first_chunk, use_grpc_framing, leftover,
                           client_write, server_io_open)
       IN  /\ first_chunk' = r.first_chunk
           /\ use_grpc_framing' = r.grpc
           /\ leftover' = r.leftover
           /\ client_write' = r.written
           /\ up_pc' = IF r.ok THEN "READING" ELSE "FAILED"
           /\ up_bad_len' = IF r.bad_len # -1 THEN r.bad_len ELSE up_bad_len
    /\ up_pos' = up_pos + k
    /\ up_first' = IF up_first = -1 THEN k ELSE up_first
    /\ traffic_counter' = traffic_counter + k
    /\ UNCHANGED << up_is_grpc, server_io_open, up_stream, varsDown >>

\* body.data() delivers an error: chunk? ends the task
UpBodyError ==
    /\ up_pc = "READING"
    /\ up_pc' = "FAILED"
    /\ UNCHANGED << up_is_grpc, use_grpc_framing, first_chunk, leftover,
                    client_write, server_io_open, up_stream, up_pos, up_first,
                    up_bad_len, traffic_counter, varsDown >>

\* body.data() delivers None: the body has ended
UpEnd ==
    /\ up_pc = "READING"
    /\ up_pos = Len(up_stream)
    /\ up_pc' = "DONE"
    /\ UNCHANGED << up_is_grpc, use_grpc_framing, first_chunk, leftover,
                    client_write, server_io_open, up_stream, up_pos, up_first,
                    up_bad_len, traffic_counter, varsDown >>

\* the spawned handler returns and drops server_io
HandlerReturns ==
    /\ up_pc # "IDLE"
    /\ server_io_open
    /\ server_io_open' = FALSE
    /\ UNCHANGED << up_pc, up_is_grpc, use_grpc_framing, first_chunk, leftover,
                    client_write, up_stream, up_pos, up_first, up_bad_len,
                    traffic_counter, varsDown >>

\* the handler writes its next k bytes into server_io
HandlerWrites(k) ==
    /\ down_pc = "LOOP"
    /\ server_io_open
    /\ k > 0
    /\ handler_pos + k <= Len(HandlerOut)
    /\ handler_pos' = handler_pos + k
    /\ client_read' = client_read \o SubSeq(HandlerOut, handler_pos + 1,
                                            handler_pos + k)
    /\ UNCHANGED << up_pc, up_is_grpc, use_grpc_framing, first_chunk, leftover,
                    client_write, server_io_open, up_stream, up_pos, up_first,
                    up_bad_len, traffic_counter, down_pc, send_stream,
                    down_log >>

\* one iteration of the downstream loop: read_buf returns n > 0 bytes, they go
\* out framed or raw through send_split_data; ok: every send_data succeeds
DownRead(n, draws, ok) ==
    /\ down_pc = "LOOP"
    /\ n > 0
    /\ n <= Len(client_read)
    /\ LET chunk == SubSeq(client_read, 1, n)
           frame == << 0 >> \o to_be_bytes(n, 4) \o chunk
           out == IF use_grpc_framing THEN send_split_data(frame, draws)
                  ELSE send_split_data(chunk, draws)
       IN  /\ client_read' = SubSeq(client_read, n + 1, Len(client_read))
           /\ down_log' = Append(down_log, chunk)
           /\ IF ok
              THEN /\ send_stream' =
                         send_stream
                            \o [i \in 1..Len(out) |-> DataFrame(out[i], FALSE)]
                   /\ traffic_counter' = traffic_counter + Len(Concat(out))
                   /\ down_pc' = "LOOP"
              ELSE /\ send_stream' = send_stream
                   /\ traffic_counter' = traffic_counter + Len(out[1])
                   /\ down_pc' = "FAILED"
    /\ UNCHANGED << up_pc, up_is_grpc, use_grpc_framing, first_chunk, leftover,
                    client_write, server_io_open, up_stream, up_pos, up_first,
                    up_bad_len, handler_pos >>

\* read_buf returns 0 (the handler dropped server_io and the pipe is empty):
\* the loop ends and the end marker is sent; ok: that send succeeds
DownEof(ok) ==
    /\ down_pc = "LOOP"
    /\ ~server_io_open
    /\ Len(client_read) = 0
    /\ send_stream' =
          IF ~ok THEN send_stream
          ELSE IF use_grpc_framing THEN Append(send_stream, GrpcStatusTrailers)
          ELSE Append(send_stream, DataFrame(<< >>, TRUE))
    /\ down_pc' = IF ok THEN "DONE" ELSE "FAILED"
    /\ UNCHANGED << up_pc, up_is_grpc, use_grpc_framing, first_chunk, leftover,
                    client_write, server_io_open, up_stream, up_pos, up_first,
                    up_bad_len, traffic_counter, handler_pos, client_read,
                    down_log >>

NextUp ==
    \/ \E is_grpc \in BOOLEAN, stream \in Bodies :
          UpStart(is_grpc, stream) /\ UNCHANGED othersUp
    \/ \E k \in 0..(Len(up_stream) - up_pos) : UpChunk(k) /\ UNCHANGED othersUp
    \/ UpBodyError /\ UNCHANGED othersUp
    \/ UpEnd /\ UNCHANGED othersUp
    \/ HandlerReturns /\ UNCHANGED othersUp

\* both directions of one Standalone stream
NextStandalone ==
    \/ \E is_grpc \in BOOLEAN, stream \in StandaloneBodies :
          UpStart(is_grpc, stream) /\ UNCHANGED othersUp
    \/ \E k \in 0..(Len(up_stream) - up_pos) : UpChunk(k) /\ UNCHANGED othersUp
    \/ UpBodyError /\ UNCHANGED othersUp
    \/ UpEnd /\ UNCHANGED othersUp
    \/ HandlerReturns /\ UNCHANGED othersUp
    \/ \E k \in 1..MaxDownBytes : HandlerWrites(k) /\ UNCHANGED othersUp
    \/ \E n \in 1..MaxDownBytes, draws \in DrawSeqs, ok \in BOOLEAN :
          DownRead(n, draws, ok) /\ UNCHANGED othersUp
    \/ \E ok \in BOOLEAN : DownEof(ok) /\ UNCHANGED othersUp

(***************************************************************************)
(* The x-padding header of the 200 responses (h2.rs)                       *)
(***************************************************************************)
\* rng.gen_range(min..max): max is excluded
gen_range(min, max) == min..(max - 1)

gen_adaptive_padding_at_most(traffic) ==
    IF traffic <= 1048576 THEN gen_range(64, 512) ELSE gen_range(16, 32)

\* the lengths gen_adaptive_padding(traffic) can return
gen_adaptive_padding(traffic) ==
    IF traffic < 1048576 THEN gen_range(64, 512) ELSE gen_range(16, 32)

\* the handlers that answer 200
PadRoutes == {"SplitDown", "Standalone", "SplitUp"}

\* values of the traffic counter when a response is built
TrafficSamples == { 0, 1048575, 1048576, 1048577, 8388608 }

\* the argument each handler passes to gen_adaptive_padding: the GET and the
\* Standalone handler pass 0, the SplitUp handler the counter it loaded
PaddingArgument(r, total) == IF r = "SplitUp" THEN total ELSE 0

NoResponse == [route |-> "none", traffic |-> 0, x_padding |-> 0]

InitPad == pad_resp = NoResponse

\* a handler builds its 200 response while the counter stands at total
BuildResponse(r, total, len) ==
    /\ pad_resp = NoResponse
    /\ len \in gen_adaptive_padding(PaddingArgument(r, total))
    /\ pad_resp' = [route |-> r, traffic |-> total, x_padding |-> len]

NextPad ==
    \E r \in PadRoutes, total \in TrafficSamples, len \in 16..512 :
        BuildResponse(r, total, len) /\ UNCHANGED othersPad

(***************************************************************************)
(* The GC loop of the XDP loader (src/src/xdp.rs) and the classifier's      *)
(* writes to RATE_LIMIT_MAP that run beside it                             *)
(***************************************************************************)
\* a u64 of nanoseconds, kept as whole seconds and the nanoseconds beyond them
Ns(sec, nsec) == [sec |-> sec, nsec |-> nsec]

\* a < b
NsLess(a, b) == a.sec < b.sec \/ (a.sec = b.sec /\ a.nsec < b.nsec)

\* a.saturating_sub(secs * 1_000_000_000)
saturating_sub_secs(a, secs) ==
    IF a.sec < secs THEN Ns(0, 0) ELSE Ns(a.sec - secs, a.nsec)

\* a + NANOS_PER_SEC
AddOneSec(a) == Ns(a.sec + 1, a.nsec)

\* the instants of the run, in order: bpf_ktime_get_ns() at each
GcClock ==
    << Ns(1, 0), Ns(40, 500000000), Ns(220, 499999999), Ns(220, 500000000),
       Ns(220, 500000001), Ns(221, 500000001), Ns(400, 509999999) >>

\* the source IPs of the run
GcIps == {1, 2}

\* /proc/uptime shows seconds with two decimals; (sec_f64 * 1e9) as u64
UptimeNs(t) == Ns(t.sec, (t.nsec \div 10000000) * 10000000)

\* what reading /proc/uptime and the map can give
GcReads == {"ok", "unreadable", "unparsable", "no_map"}

GcNoEntry == [present |-> FALSE, last_time_ns |-> Ns(0, 0), count |-> 0]

GcNotRead == [read |-> FALSE, last_time_ns |-> Ns(0, 0)]

IsStaleOrEqual(v, threshold) == ~NsLess(threshold, v.last_time_ns)

\* if v.last_time_ns < threshold_ns
IsStale(v, threshold) == NsLess(v.last_time_ns, threshold)

InitGc ==
    /\ gc_map = [k \in GcIps |-> GcNoEntry]
    /\ gc_tick = 1
    /\ gc_pc = "SLEEP"
    /\ gc_uptime = "none"
    /\ threshold_ns = Ns(0, 0)
    /\ gc_now = Ns(0, 0)
    /\ gc_visited = {}
    /\ keys_to_remove = {}
    /\ gc_read = [k \in GcIps |-> GcNotRead]
    /\ gc_removed = {}

\* time passes
GcClockTick ==
    /\ gc_tick < Len(GcClock)
    /\ gc_tick' = gc_tick + 1
    /\ UNCHANGED << gc_map, gc_pc, gc_uptime, threshold_ns, gc_now, gc_visited,
                    keys_to_remove, gc_read, gc_removed >>

\* the classifier counts a SYN of ip to a protected port (main.rs:169-201);
\* room: the insert of a new entry finds room in the map
KernelSyn(ip, room) ==
    /\ LET now == GcClock[gc_tick]
           entry == gc_map[ip]
       IN  IF entry.present
           THEN IF NsLess(AddOneSec(entry.last_time_ns), now)
                THEN gc_map' = [gc_map EXCEPT ![ip] =
                        [present |-> TRUE, last_time_ns |-> now, count |-> 1]]
                ELSE /\ entry.count < MaxGcCount
                     /\ gc_map' = [gc_map EXCEPT ![ip].count = @ + 1]
           ELSE IF room
                THEN gc_map' = [gc_map EXCEPT ![ip] =
                        [present |-> TRUE, last_time_ns |-> now, count |-> 1]]
                ELSE gc_map' = gc_map
    /\ UNCHANGED << gc_tick, gc_pc, gc_uptime, threshold_ns, gc_now, gc_visited,
                    keys_to_remove, gc_read, gc_removed >>

\* the sleep of 180 s is over: the pass opens the map and reads /proc/uptime
GcWake(res) ==
    /\ gc_pc \in {"SLEEP", "DONE"}
    /\ gc_uptime' = res
    /\ gc_now' = IF res = "ok" THEN UptimeNs(GcClock[gc_tick]) ELSE Ns(0, 0)
    /\ threshold_ns' =
          IF res = "ok"
          THEN saturating_sub_secs(UptimeNs(GcClock[gc_tick]), GcAgeSecs)
          ELSE Ns(0, 0)
    /\ gc_pc' = IF res = "ok" THEN "ITER" ELSE "DONE"
    /\ gc_visited' = {}
    /\ keys_to_remove' = {}
    /\ gc_read' = [k \in GcIps |-> GcNotRead]
    /\ gc_removed' = {}
    /\ UNCHANGED << gc_map, gc_tick >>

\* limit_map.iter() yields the entry of key k
GcVisit(k) ==
    /\ gc_pc = "ITER"
    /\ k \notin gc_visited
    /\ gc_map[k].present
    /\ gc_visited' = gc_visited \cup {k}
    /\ gc_read' = [gc_read EXCEPT ![k] =
                      [read |-> TRUE, last_time_ns |-> gc_map[k].last_time_ns]]
    /\ keys_to_remove' = IF IsStale(gc_map[k], threshold_ns)
                         THEN keys_to_remove \cup {k}
                         ELSE keys_to_remove
    /\ UNCHANGED << gc_map, gc_tick, gc_pc, gc_uptime, threshold_ns, gc_now,
                    gc_removed >>

\* the iteration is over
GcIterEnd ==
    /\ gc_pc = "ITER"
    /\ \A k \in GcIps : gc_map[k].present => k \in gc_visited
    /\ gc_pc' = "REMOVE"
    /\ UNCHANGED << gc_map, gc_tick, gc_uptime, threshold_ns, gc_now,
                    gc_visited, keys_to_remove, gc_read, gc_removed >>

\* let _ = limit_map.remove(&k)
GcRemove(k) ==
    /\ gc_pc = "REMOVE"
    /\ k \in keys_to_remove
    /\ gc_map' = [gc_map EXCEPT ![k] = GcNoEntry]
    /\ keys_to_remove' = keys_to_remove \ {k}
    /\ gc_removed' = gc_removed \cup {k}
    /\ UNCHANGED << gc_tick, gc_pc, gc_uptime, threshold_ns, gc_now,
                    gc_visited, gc_read >>

\* every collected key was removed: back to the sleep
GcPassEnd ==
    /\ gc_pc = "REMOVE"
    /\ keys_to_remove = {}
    /\ gc_pc' = "DONE"
    /\ UNCHANGED << gc_map, gc_tick, gc_uptime, threshold_ns, gc_now,
                    gc_visited, keys_to_remove, gc_read, gc_removed >>

NextGc ==
    \/ GcClockTick /\ UNCHANGED othersGc
    \/ \E ip \in GcIps, room \in BOOLEAN :
          KernelSyn(ip, room) /\ UNCHANGED othersGc
    \/ \E res \in GcReads : GcWake(res) /\ UNCHANGED othersGc
    \/ \E k \in GcIps : GcVisit(k) /\ UNCHANGED othersGc
    \/ GcIterEnd /\ UNCHANGED othersGc
    \/ \E k \in GcIps : GcRemove(k) /\ UNCHANGED othersGc
    \/ GcPassEnd /\ UNCHANGED othersGc

(***************************************************************************)
(* loader::start_xdp up to its GC loop (src/src/xdp.rs)                    *)
(***************************************************************************)
\* ports: the listening VLESS ports, in the order of the Vec
VlessPorts == << 443, 8443, 2053 >>

\* destination ports of the packets that arrive
PacketPorts == { 443, 8443, 2053, 80 }

NoClassified == [port |-> 0, protected |-> FALSE, missing |-> {}]

InitLoader ==
    /\ ld_pc = "START"
    /\ ld_attached = FALSE
    /\ ld_ports = {}
    /\ ld_next = 1
    /\ ld_pkt = NoClassified

\* Bpf::load, program_mut(..).try_into(), program.load(): any Err returns
LoadProgram(ok) ==
    /\ ld_pc = "START"
    /\ ld_pc' = IF ok THEN "LOADED" ELSE "RETURNED"
    /\ UNCHANGED << ld_attached, ld_ports, ld_next, ld_pkt >>

\* program.attach in driver mode, then in SKB mode; both failing returns
AttachProgram(native_ok, skb_ok) ==
    /\ ld_pc = "LOADED"
    /\ ld_attached' = (native_ok \/ skb_ok)
    /\ ld_pc' = IF native_ok \/ skb_ok THEN "ATTACHED" ELSE "RETURNED"
    /\ UNCHANGED << ld_ports, ld_next, ld_pkt >>

\* bpf.map_mut("ALLOWED_PORTS") and HashMap::try_from: a failure is logged and
\* the port loop is skipped
OpenPortsMap(ok) ==
    /\ ld_pc = "ATTACHED"
    /\ ld_pc' = IF ok THEN "PORTS" ELSE "GC"
    /\ UNCHANGED << ld_attached, ld_ports, ld_next, ld_pkt >>

\* one iteration of for port in &ports: a failed insert is logged
InsertPort(ok) ==
    /\ ld_pc = "PORTS"
    /\ ld_next <= Len(VlessPorts)
    /\ ld_ports' = IF ok THEN ld_ports \cup { VlessPorts[ld_next] }
                   ELSE ld_ports
    /\ ld_next' = ld_next + 1
    /\ UNCHANGED << ld_pc, ld_attached, ld_pkt >>

\* the port loop is over: the GC loop starts
PortsDone ==
    /\ ld_pc = "PORTS"
    /\ ld_next > Len(VlessPorts)
    /\ ld_pc' = "GC"
    /\ UNCHANGED << ld_attached, ld_ports, ld_next, ld_pkt >>

\* the attached program classifies a packet: ALLOWED_PORTS.get(&dest_port)
ClassifyPacket(port) ==
    /\ ld_attached
    /\ ld_pkt' = [port |-> port, protected |-> port \in ld_ports,
                  missing |-> { VlessPorts[i] : i \in 1..Len(VlessPorts) }
                                 \ ld_ports]
    /\ UNCHANGED << ld_pc, ld_attached, ld_ports, ld_next >>

NextLoader ==
    \/ \E ok \in BOOLEAN : LoadProgram(ok) /\ UNCHANGED othersLoader
    \/ \E native_ok \in BOOLEAN, skb_ok \in BOOLEAN :
          AttachProgram(native_ok, skb_ok) /\ UNCHANGED othersLoader
    \/ \E ok \in BOOLEAN : OpenPortsMap(ok) /\ UNCHANGED othersLoader
    \/ \E ok \in BOOLEAN : InsertPort(ok) /\ UNCHANGED othersLoader
    \/ PortsDone /\ UNCHANGED othersLoader
    \/ \E port \in PacketPorts : ClassifyPacket(port) /\ UNCHANGED othersLoader

(***************************************************************************)
(* RealityAuth::verify_client_auth (src/src/transport/reality/auth.rs)     *)
(***************************************************************************)
\* the session ids a ClientHello can carry against the tag of its random:
\* prefixes of the tag of every length a session id can have, the same with
\* one byte altered at a position inside or outside the first 8, and the tag
\* followed by other bytes
SessionIdLens == { 0, 1, 7, 8, 9, 32 }

AlteredAt == { 1, 7, 8, 9 }

SessionIds(tag) ==
    { SubSeq(tag, 1, n) : n \in SessionIdLens }
    \cup { [i \in 1..n |-> IF i = a THEN (tag[i] + 1) % 256 ELSE tag[i]] :
               n \in SessionIdLens \ {0}, a \in AlteredAt }

\* RealityAuth::verify_client_auth
verify_client_auth(self, client_random, session_id) ==
    IF session_id = << >> THEN FALSE
    ELSE LET signature == hmac_sign(self, client_random)
             compare_len == IF Len(session_id) < 8 THEN Len(session_id) ELSE 8
         IN SubSeq(signature, 1, compare_len)
                = SubSeq(session_id, 1, compare_len)

NoVerify == [private_key |-> << >>, client_random |-> << >>,
             session_id |-> << >>, result |-> FALSE]

InitVerify == verify_call = NoVerify

\* one call of verify_client_auth
VerifyClientAuth(self, client_random, session_id) ==
    /\ verify_call = NoVerify
    /\ verify_call' = [private_key |-> self,
                       client_random |-> client_random,
                       session_id |-> session_id,
                       result |-> verify_client_auth(self, client_random,
                                                     session_id)]

NextVerify ==
    \E self \in PrivateKeys, client_random \in ClientRandoms :
        \E session_id \in SessionIds(hmac_sign(self, client_random)) :
            VerifyClientAuth(self, client_random, session_id)
                /\ UNCHANGED othersVerify

(***************************************************************************)
(* TlsKeys::decrypt_client_record called on its own                        *)
(* (src/src/transport/reality/crypto.rs)                                   *)
(***************************************************************************)
\* the content of an inner plaintext: empty, and some that end in zero bytes
InnerContents == { << >>, <<7>>, <<0>>, <<7, 0>>, <<0, 0>>, <<5, 0, 9>> }

\* the type byte of an inner plaintext
InnerTypes == { 1, 20, 21, 22, 23, 255 }

Zeros(n) == [i \in 1..n |-> 0]

\* what open_in_place may leave in the buffer: content, type and padding,
\* zero bytes only, or nothing
InnerPlaintexts ==
    { c \o << t >> \o Zeros(p) :
          c \in InnerContents, t \in InnerTypes, p \in 0..MaxPadding }
    \cup { Zeros(n) : n \in 0..MaxPadding }

\* the records decrypt_client_record is called on: sealed under the client
\* handshake key or another one, with the nonce of sequence 0 or 1
SealedRecords ==
    [outer : {23}, key : {"c_hs", "other"}, seq : {0, 1},
     plain : InnerPlaintexts]

\* TlsKeys with the IVs the key schedule derived
KeySets == [server_iv : Ivs, client_iv : Ivs]

NoDecrypt == [self |-> NoKeys, seq |-> 0, rec |-> NoRec, ret |-> DecryptErr]

InitDec == dec_call = NoDecrypt

\* one call of decrypt_client_record
DecryptClientRecord(self, seq, rec) ==
    /\ dec_call = NoDecrypt
    /\ dec_call' = [self |-> self, seq |-> seq, rec |-> rec,
                    ret |-> decrypt_client_record(self, seq, rec)]

NextDec ==
    \E self \in KeySets, seq \in {0, 1}, rec \in SealedRecords :
        DecryptClientRecord(self, seq, rec) /\ UNCHANGED othersDec

(***************************************************************************)
(* Address::encode and Address::decode (src/src/protocol/vless/address.rs) *)
(***************************************************************************)
\* Address: Ipv4(octets, port), Ipv6(octets, port) or Domain(bytes of the
\* String, port)
Ipv4(octets, port) == [kind |-> "Ipv4", host |-> octets, port |-> port]

Ipv6(octets, port) == [kind |-> "Ipv6", host |-> octets, port |-> port]

Domain(domain, port) == [kind |-> "Domain", host |-> domain, port |-> port]

\* buf.advance(n): the bytes after the first n
Advance(buf, n) == SubSeq(buf, n + 1, Len(buf))

\* a continuation byte of UTF-8
IsCont(b) == b >= 128 /\ b <= 191

\* the length of the UTF-8 sequence a byte starts; 0 for a byte that starts
\* none (a continuation byte, 0xC0, 0xC1, 0xF5 and above)
Utf8Width(b) ==
    IF b < 128 THEN 1
    ELSE IF b >= 194 /\ b <= 223 THEN 2
    ELSE IF b >= 224 /\ b <= 239 THEN 3
    ELSE IF b >= 240 /\ b <= 244 THEN 4
    ELSE 0

\* String::from_utf8(bytes).is_ok(): the first byte starts a sequence, every
\* byte that is no continuation byte starts one that is followed by exactly
\* its continuation bytes, and no sequence is overlong, a surrogate or beyond
\* U+10FFFF
from_utf8_ok(bytes) ==
    LET n == Len(bytes)
    IN /\ n > 0 => ~IsCont(bytes[1])
       /\ \A i \in 1..n :
              ~IsCont(bytes[i]) =>
                  LET w == Utf8Width(bytes[i])
                  IN /\ w > 0
                     /\ i + w - 1 <= n
                     /\ \A j \in (i + 1)..(i + w - 1) : IsCont(bytes[j])
                     /\ i + w <= n => ~IsCont(bytes[i + w])
                     /\ bytes[i] = 224 => bytes[i + 1] >= 160
                     /\ bytes[i] = 237 => bytes[i + 1] <= 159
                     /\ bytes[i] = 240 => bytes[i + 1] >= 144
                     /\ bytes[i] = 244 => bytes[i + 1] <= 143

\* A mutant of put_u16: the port is written little-endian.
put_u16_le(buf, n) == buf \o << n % 256, n \div 256 >>

\* buf.put_u16(n): big-endian
put_u16(buf, n) == buf \o to_be_bytes(n, 2)

\* buf.get_u16() of the first two bytes
get_u16(buf) == buf[1] * 256 + buf[2]

\* Address::encode: the bytes appended to buf; domain.len() as u8 truncates
encode(self, buf) ==
    IF self.kind = "Ipv4" THEN put_u16(buf \o << 1 >> \o self.host, self.port)
    ELSE IF self.kind = "Domain"
         THEN put_u16(buf \o << 2, Len(self.host) % (U8Max + 1) >> \o self.host,
                      self.port)
    ELSE put_u16(buf \o << 3 >> \o self.host, self.port)

NoAddress == [kind |-> "-", host |-> << >>, port |-> 0]

\* Err(..) of decode with what it left in the buffer
DecodeErr(rest) == [ok |-> FALSE, addr |-> NoAddress, rest |-> rest]

\* Address::decode: Ok(address) or Err, and the buffer after the call
RECURSIVE decode(_)
decode(buf) ==
    IF Len(buf) < 1 THEN DecodeErr(buf)
    ELSE LET addr_type == buf[1]
             b == Advance(buf, 1)
         IN IF addr_type = 1
            THEN IF Len(b) < 6 THEN DecodeErr(b)
                 ELSE [ok |-> TRUE,
                       addr |-> Ipv4(SubSeq(b, 1, 4), get_u16(Advance(b, 4))),
                       rest |-> Advance(b, 6)]
            ELSE IF addr_type = 2
            THEN IF Len(b) < 1 THEN DecodeErr(b)
                 ELSE LET len == b[1]
                          c == Advance(b, 1)
                      IN IF Len(c) < len + 2 THEN DecodeErr(c)
                         ELSE IF ~from_utf8_ok(SubSeq(c, 1, len))
                              THEN DecodeErr(Advance(c, len))
                         ELSE [ok |-> TRUE,
                               addr |-> Domain(SubSeq(c, 1, len),
                                               get_u16(Advance(c, len))),
                               rest |-> Advance(c, len + 2)]
            ELSE IF addr_type = 3
            THEN IF Len(b) < 18 THEN DecodeErr(b)
                 ELSE [ok |-> TRUE,
                       addr |-> Ipv6(SubSeq(b, 1, 16), get_u16(Advance(b, 16))),
                       rest |-> Advance(b, 18)]
            ELSE IF addr_type = 0
            THEN IF Len(b) < 1 THEN DecodeErr(b)
                 ELSE decode(Advance(b, 1))
            ELSE DecodeErr(b)

\* domain names by length: nothing, "a", U+00E9, "example.com", and runs of
\* "a" up to and beyond what one length byte can say
DomainLens == { U8Max - 1, U8Max, U8Max + 1, U8Max + MaxDomainExcess }

Domains ==
    { << >>, << 97 >>, << 195, 169 >>,
      << 101, 120, 97, 109, 112, 108, 101, 46, 99, 111, 109 >> }
    \cup { [i \in 1..n |-> 97] : n \in DomainLens }

AddrPorts == { 0, 1, 255, 256, 443, 65535 }

AddressSamples ==
    { Ipv4(o, p) : o \in { << 192, 168, 1, 1 >>, << 0, 0, 0, 0 >>,
                           << 255, 255, 255, 255 >> }, p \in AddrPorts }
    \cup { Ipv6(o, p) :
               o \in { << 32, 1, 13, 184, 0, 0, 0, 0, 0, 0, 0, 0, 0, 0, 0, 1 >>,
                       [i \in 1..16 |-> 0], [i \in 1..16 |-> 255] },
               p \in AddrPorts }
    \cup { Domain(d, p) : d \in Domains, p \in AddrPorts }

\* what follows the address in the buffer
Tails == { << >>, << 0 >>, << 1, 2, 3 >> }

\* buffers that no encode wrote: a Mux prefix, truncated addresses, a domain
\* that is not UTF-8, an unknown type
ReceivedBytes ==
    { << >>, << 0 >>, << 0, 5, 1, 10, 0, 0, 1, 1, 187, 9 >>,
      << 1, 10, 0, 0, 1, 1 >>, << 2 >>, << 2, 3, 97, 98, 99, 0 >>,
      << 2, 2, 195, 40, 0, 80 >>, << 3, 0, 0, 0 >>, << 4, 1, 2, 3 >> }

InitAddr ==
    /\ addr_pc = "EMPTY"
    /\ addr_self = NoAddress
    /\ addr_tail = << >>
    /\ addr_buf = << >>
    /\ addr_decoded = DecodeErr(<< >>)

\* self.encode(&mut buf) on a new buffer, followed by the rest of the request
AddrEncode(self, tail) ==
    /\ addr_pc = "EMPTY"
    /\ addr_pc' = "ENCODED"
    /\ addr_self' = self
    /\ addr_tail' = tail
    /\ addr_buf' = encode(self, << >>) \o tail
    /\ UNCHANGED addr_decoded

\* bytes of a peer arrive in the buffer
AddrReceive(bytes) ==
    /\ addr_pc = "EMPTY"
    /\ addr_pc' = "RECEIVED"
    /\ addr_buf' = bytes
    /\ UNCHANGED << addr_self, addr_tail, addr_decoded >>

\* Address::decode(&mut buf)
AddrDecode ==
    /\ addr_pc \in { "ENCODED", "RECEIVED" }
    /\ addr_pc' = IF addr_pc = "ENCODED" THEN "ROUNDTRIP" ELSE "DECODED"
    /\ addr_decoded' = decode(addr_buf)
    /\ addr_buf' = decode(addr_buf).rest
    /\ UNCHANGED << addr_self, addr_tail >>

NextAddr ==
    \/ \E self \in AddressSamples, tail \in Tails :
           AddrEncode(self, tail) /\ UNCHANGED othersAddr
    \/ \E bytes \in ReceivedBytes : AddrReceive(bytes) /\ UNCHANGED othersAddr
    \/ AddrDecode /\ UNCHANGED othersAddr

(***************************************************************************)
(* ConnectionManager and ProxyConnection::relay                            *)
(* (src/src/network/connection.rs)                                         *)
(***************************************************************************)
Conns == 1..NConns

\* a connection that was not passed to handle_connection yet
NotHandled == [pc |-> "NEW", c2r |-> "-", r2c |-> "-", res |-> "-"]

\* tokio::try_join!(client_to_remote, remote_to_client): Err as soon as one
\* copy fails, Ok when both have ended, pending otherwise
try_join(c2r, r2c) ==
    IF c2r = "err" \/ r2c = "err" THEN "err"
    ELSE IF c2r = "ok" /\ r2c = "ok" THEN "ok"
    ELSE "pending"

\* A mutant of AfterRelay: the count is lowered after a clean relay only.
AfterRelayOkOnly(count, res) == IF res = "ok" THEN count - 1 ELSE count

\* if let Err(e) = connection.relay().await { error!(..) }
\* active_connections.fetch_sub(1): a value below 0 stands for the wrap of
\* the usize
AfterRelay(count, res) == count - 1

InitMgr ==
    /\ active_connections = 0
    /\ mgr_task = [c \in Conns |-> NotHandled]

\* ConnectionManager::handle_connection: fetch_add(1), then tokio::spawn
HandleConnection(c) ==
    /\ mgr_task[c].pc = "NEW"
    /\ active_connections' = active_connections + 1
    /\ mgr_task' = [mgr_task EXCEPT ![c] =
           [pc |-> "RELAY", c2r |-> "run", r2c |-> "run", res |-> "-"]]

\* one of the two copy loops of relay ends: read returned 0 and the shutdown
\* went through (ok), or a read, write or shutdown failed (err)
CopyEnds(c, dir, how) ==
    /\ mgr_task[c].pc = "RELAY"
    /\ try_join(mgr_task[c].c2r, mgr_task[c].r2c) = "pending"
    /\ mgr_task[c][dir] = "run"
    /\ mgr_task' = [mgr_task EXCEPT ![c][dir] = how]
    /\ UNCHANGED active_connections

\* relay returns what try_join! returned
RelayReturns(c) ==
    /\ mgr_task[c].pc = "RELAY"
    /\ try_join(mgr_task[c].c2r, mgr_task[c].r2c) # "pending"
    /\ mgr_task' = [mgr_task EXCEPT
           ![c].pc = "RELAYED",
           ![c].res = try_join(mgr_task[c].c2r, mgr_task[c].r2c)]
    /\ UNCHANGED active_connections

\* the rest of the spawned task: the error is logged, the count lowered
RelayTaskFinishes(c) ==
    /\ mgr_task[c].pc = "RELAYED"
    /\ active_connections' = AfterRelay(active_connections, mgr_task[c].res)
    /\ mgr_task' = [mgr_task EXCEPT ![c].pc = "DONE"]

NextMgr ==
    \/ \E c \in Conns : HandleConnection(c) /\ UNCHANGED othersMgr
    \/ \E c \in Conns, dir \in {"c2r", "r2c"}, how \in {"ok", "err"} :
           CopyEnds(c, dir, how) /\ UNCHANGED othersMgr
    \/ \E c \in Conns : RelayReturns(c) /\ UNCHANGED othersMgr
    \/ \E c \in Conns : RelayTaskFinishes(c) /\ UNCHANGED othersMgr

(***************************************************************************)
(* try_xdp_firewall on several CPUs: the SYN branch of a protected port,   *)
(* one memory access at a time (src/xray-lite-ebpf/src/main.rs)            *)
(***************************************************************************)
Cpus == 1..NCpus

\* bpf_ktime_get_ns() of the SYNs: all inside the second that starts at 0
SmpTimes == { 0, NANOS_PER_SEC \div 2 }

\* a CPU that is not in the program
CpuIdle == [pc |-> "IDLE", now |-> 0, last_time_ns |-> 0, count |-> 0]

InitSmp ==
    /\ smp_entry = NoEntry
    /\ cpu = [c \in Cpus |-> CpuIdle]
    /\ smp_syns = 0
    /\ smp_passed = 0
    /\ smp_lost = FALSE

\* a SYN of the one source reaches a CPU: the program runs up to
\* RATE_LIMIT_MAP.get_ptr_mut(&src_ip), which is Some or None
CpuLookup(c, now) ==
    /\ cpu[c].pc = "IDLE"
    /\ smp_syns < MaxSmpSyns
    /\ smp_syns' = smp_syns + 1
    /\ cpu' = [cpu EXCEPT ![c] =
           [pc |-> IF smp_entry.present THEN "LOAD" ELSE "INSERT",
            now |-> now, last_time_ns |-> 0, count |-> 0]]
    /\ UNCHANGED << smp_entry, smp_passed, smp_lost >>

\* None: RATE_LIMIT_MAP.insert(&src_ip, &new_entry, 0) stores the new entry,
\* over an entry another CPU stored since the lookup; then XDP_PASS
CpuInsert(c) ==
    /\ cpu[c].pc = "INSERT"
    /\ smp_entry' = RateLimitEntry(cpu[c].now, 1)
    /\ smp_lost' = (smp_lost \/ smp_entry.present)
    /\ smp_passed' = smp_passed + 1
    /\ cpu' = [cpu EXCEPT ![c] = CpuIdle]
    /\ UNCHANGED smp_syns

\* Some(entry): the loads of entry.last_time_ns and entry.count
CpuLoad(c) ==
    /\ cpu[c].pc = "LOAD"
    /\ cpu' = [cpu EXCEPT ![c].pc = "STORE",
                          ![c].last_time_ns = smp_entry.last_time_ns,
                          ![c].count = smp_entry.count]
    /\ UNCHANGED << smp_entry, smp_syns, smp_passed, smp_lost >>

\* the stores: the window is reset, or entry.count += 1 writes the loaded
\* count plus one; then the verdict on the count, which the program holds in
\* a register or reads again from the entry
CpuStore(c, reread) ==
    /\ cpu[c].pc = "STORE"
    /\ LET reset == cpu[c].now > cpu[c].last_time_ns + NANOS_PER_SEC
           stored == IF reset THEN RateLimitEntry(cpu[c].now, 1)
                     ELSE RateLimitEntry(smp_entry.last_time_ns,
                                         cpu[c].count + 1)
           seen == IF reread THEN stored.count ELSE cpu[c].count + 1
           drop == ~reset /\ OverLimit(seen)
       IN /\ smp_entry' = stored
          /\ smp_lost' = (smp_lost \/ stored.count < smp_entry.count + 1)
          /\ smp_passed' = IF drop THEN smp_passed ELSE smp_passed + 1
    /\ cpu' = [cpu EXCEPT ![c] = CpuIdle]
    /\ UNCHANGED smp_syns

NextSmp ==
    \/ \E c \in Cpus, now \in SmpTimes : CpuLookup(c, now) /\ UNCHANGED othersSmp
    \/ \E c \in Cpus : CpuInsert(c) /\ UNCHANGED othersSmp
    \/ \E c \in Cpus : CpuLoad(c) /\ UNCHANGED othersSmp
    \/ \E c \in Cpus, reread \in BOOLEAN :
           CpuStore(c, reread) /\ UNCHANGED othersSmp

Init ==
    /\ InitH2
    /\ InitConn
    /\ InitHs
    /\ InitAuth
    /\ InitXdp
    /\ InitUp
    /\ InitSplit
    /\ InitPad
    /\ InitGc
    /\ InitLoader
    /\ InitVerify
    /\ InitDec
    /\ InitAddr
    /\ InitMgr
    /\ InitSmp

SpecH2 == Init /\ [][NextH2]_vars

SpecConn == Init /\ [][NextConn]_vars

SpecHs == Init /\ [][NextHs]_vars

SpecAuth == Init /\ [][NextAuth]_vars

SpecXdp == Init /\ [][NextXdp]_vars

SpecUp == Init /\ [][NextUp]_vars

SpecStandalone == Init /\ [][NextStandalone]_vars

\* the steps the downstream task of handle_standalone takes by itself: bytes
\* in the pipe are read and sent, EOF of the pipe ends the loop
DownTaskStep ==
    \/ \E n \in 1..MaxDownBytes, draws \in DrawSeqs, ok \in BOOLEAN :
          DownRead(n, draws, ok) /\ UNCHANGED othersUp
    \/ \E ok \in BOOLEAN : DownEof(ok) /\ UNCHANGED othersUp

\* both directions, the downstream task scheduled; what the peer sends and
\* what the VLESS handler does is up to them
SpecStandaloneLive ==
    Init /\ [][NextStandalone]_vars /\ WF_vars(DownTaskStep)

SpecSplit == Init /\ [][NextSplit]_vars

SpecPad == Init /\ [][NextPad]_vars

SpecGc == Init /\ [][NextGc]_vars

SpecLoader == Init /\ [][NextLoader]_vars

\* calls of verify_client_auth
SpecVerify == Init /\ [][NextVerify]_vars

\* calls of decrypt_client_record
SpecDec == Init /\ [][NextDec]_vars

\* an address is encoded and decoded again, or bytes received are decoded
SpecAddr == Init /\ [][NextAddr]_vars

\* connections handed to the ConnectionManager
SpecMgr == Init /\ [][NextMgr]_vars

\* SYNs of one source classified on several CPUs at once
SpecSmp == Init /\ [][NextSmp]_vars

\* the steps perform takes by itself, with no byte of the peer needed: the
\* writes of the server flight (and the key derivation before them)
HsServerStep ==
    \/ \E ok \in BOOLEAN : WriteServerHello(ok) /\ UNCHANGED othersHs
    \/ \E ok \in BOOLEAN : WriteCcs(ok) /\ UNCHANGED othersHs
    \/ \E server_iv \in Ivs, client_iv \in Ivs, ok \in BOOLEAN :
          WriteEncryptedExtensions(server_iv, client_iv, ok) /\ UNCHANGED othersHs
    \/ \E fetched \in CertFetches, ok \in BOOLEAN :
          WriteCertificate(fetched, ok) /\ UNCHANGED othersHs
    \/ \E ok \in BOOLEAN : WriteFinished(ok) /\ UNCHANGED othersHs

\* the handshake task is scheduled whenever it can take a step of its own;
\* nothing makes the peer send: the reads of perform carry no timer
SpecHsLive == Init /\ [][NextHs]_vars /\ WF_vars(HsServerStep)

(***************************************************************************)
(* Properties of the stream handlers and the session registry              *)
(***************************************************************************)
\* the Session a SplitDown handler inserted is still stored under its path
Registered(r) == \E p \in Paths : SESSIONS[p] = r

\* C1: once a SplitDown handler has ended (normal return, error return after
\* the insert, or cancellation at an await point), SESSIONS holds no entry
\* that this handler inserted.
C1_InsertedSessionRemoved ==
    \A r \in Req : pc[r] \in Ended => ~Registered(r)

\* C1 witness: one GET ended by cancellation and another by an error return
\* after its insert.
C1_Witness ==
    \E r1, r2 \in Req :
        /\ route[r1] = "SplitDown" /\ pc[r1] = "cancelled"
        /\ route[r2] = "SplitDown" /\ pc[r2] = "err"

\* the routing table of the dispatcher, as the specification states it
RoutingRule(method, path, S) ==
    IF ~StartsWith(path, config_path) THEN "404"
    ELSE IF method = "GET" THEN "SplitDown"
    ELSE IF method = "POST" THEN (IF S[path] # 0 THEN "SplitUp" ELSE "Standalone")
    ELSE "405"

\* C2: every request is routed once, by the first rule that applies: prefix
\* mismatch -> 404, GET -> SplitDown, POST with a Session under its path at
\* the lookup -> SplitUp, POST without -> Standalone, other method -> 405.
C2_RoutedByFirstRule ==
    [][\A r \in Req :
          route'[r] # route[r] =>
              /\ route[r] = "none"
              /\ route'[r] = RoutingRule(req'[r].method, req'[r].path, SESSIONS)
      ]_vars

\* C2 witness: a POST routed to SplitUp beside the GET that registered its
\* path, both still running.
C2_Witness ==
    \E r1, r2 \in Req :
        /\ route[r1] = "SplitDown" /\ pc[r1] = "get_down"
        /\ route[r2] = "SplitUp" /\ pc[r2] = "post_body"
        /\ req[r1].path = req[r2].path

\* the pairing wait of one POST: budget, PC clients skip it, it stops at the
\* first poll that finds the path
PairingWaitState(r) ==
    /\ polls[r] <= PollBudget
    /\ req[r].is_pc => polls[r] = 0
    /\ pc[r] = "poll" => ~found[r]
    /\ (pc[r] = "lookup" /\ ~req[r].is_pc) => (found[r] \/ polls[r] = PollBudget)

\* one step of the pairing wait and of the lookup that follows it
PairingWaitStep(r) ==
    /\ polls'[r] > polls[r] =>
          /\ polls'[r] = polls[r] + 1
          /\ found'[r] = (SESSIONS[req[r].path] # 0)
          /\ found'[r] => pc'[r] = "lookup"
    /\ (route[r] = "none" /\ route'[r] \in {"SplitUp", "Standalone"}) =>
          (route'[r] = "SplitUp" <=> SESSIONS[req[r].path] # 0)

\* C3 as stated: a POST of a non-PC client falls through to Standalone only
\* after the whole budget of 40 polls passed with no Session for its path.
C3_StandaloneOnlyAfterBudget ==
    /\ [](\A r \in Req : PairingWaitState(r))
    /\ [][\A r \in Req :
             /\ PairingWaitStep(r)
             /\ (route[r] = "none" /\ route'[r] = "Standalone" /\ ~req[r].is_pc) =>
                   (polls[r] = PollBudget /\ ~found[r])
         ]_vars

\* C3 amended: a POST of a non-PC client polls at most 40 times and stops at
\* the first poll that finds its path, a PC client polls zero times; the POST
\* is routed to SplitUp exactly when a Session is registered at the lookup,
\* and it falls through to Standalone either after 40 polls that found none
\* or after a poll found a Session that was removed before the lookup.
C3_PairingWait ==
    /\ [](\A r \in Req : PairingWaitState(r))
    /\ [][\A r \in Req :
             /\ PairingWaitStep(r)
             /\ (route[r] = "none" /\ route'[r] = "Standalone" /\ ~req[r].is_pc) =>
                   \/ polls[r] = PollBudget /\ ~found[r]
                   \/ found[r] /\ polls[r] >= 1 /\ SESSIONS[req[r].path] = 0
         ]_vars

\* C3 witness: a POST that arrived before its GET has polled, found the path
\* registered by the GET and is routed to SplitUp.
C3_Witness ==
    \E r1, r2 \in Req :
        /\ r2 < r1
        /\ route[r1] = "SplitDown" /\ pc[r1] = "get_down"
        /\ route[r2] = "SplitUp" /\ ~req[r2].is_pc
        /\ req[r1].path = req[r2].path

\* C4: a registry entry is never replaced by another Session: a GET for an
\* occupied path leaves the first GET's Session in place.
C4_OccupiedPathKept ==
    [][\A p \in Paths :
          (SESSIONS[p] # 0 /\ SESSIONS'[p] # 0) => SESSIONS'[p] = SESSIONS[p]
      ]_vars

\* C5: once the upstream pump of a SplitDown handler has ended, the downstream
\* pump does not go on pumping with the Session still registered.
C5_PumpsEndTogether ==
    [][\A r \in Req :
          (upstream[r] = "ended" /\ pc[r] = "get_down" /\ Registered(r)) =>
              transferred_bytes'[r] = transferred_bytes[r]
      ]_vars

\* the chunks of POST r in a chunk sequence
ChunksOf(q, r) == LET FromR(c) == c[1] = r IN SelectSeq(q, FromR)

C7_ZombieClosedAfter300s ==
    loop_pc # "closed" => zero_for < WatchdogSecs + TickSecs

(***************************************************************************)
(* Properties of the Reality handshake                                     *)
(***************************************************************************)
\* C8: perform never writes an Alert record; the step that detects a failure
\* and every step after it write nothing; perform returns Err on every
\* failure and Ok only with the handshake in APP_READY.
C8_SilentFailure ==
    /\ [](/\ \A i \in 1..Len(sent) : sent[i].outer # 21 /\ sent[i].inner # 21
          /\ hs_result = "Ok" <=> hs_pc = "APP_READY"
          /\ hs_result = "Err" <=> hs_pc = "DEAD")
    /\ [][hs_pc' = "DEAD" => sent' = sent]_vars

\* C8 witness: the handshake failed after the whole server flight was sent.
C8_Witness ==
    /\ hs_pc = "DEAD"
    /\ hs_result = "Err"
    /\ Len(sent) = 5
    /\ last_rec.outer = 23

\* a TLS 1.3 inner plaintext of type 22 whose content starts with 20
IsFinishedPlain(plain) ==
    /\ Len(plain) >= 2
    /\ plain[1] = 20
    /\ \E k \in 2..Len(plain) :
          /\ plain[k] = 22
          /\ \A j \in (k + 1)..Len(plain) : plain[j] = 0

\* a TLS 1.3 inner plaintext of type 21
IsAlertPlain(plain) ==
    \E k \in 1..Len(plain) :
        /\ plain[k] = 21
        /\ \A j \in (k + 1)..Len(plain) : plain[j] = 0

\* C9: perform returns Ok only after an outer-type-23 record sealed under the
\* client handshake key with sequence 0 whose plaintext is a Finished; a
\* ChangeCipherSpec record is skipped and the handshake goes on; an outer
\* type 21 record, an inner type 21 or a failed decryption ends it in DEAD.
C9_ClientFinishedAtSeq0 ==
    /\ hs_result = "Ok" =>
          /\ last_rec.outer = 23
          /\ last_rec.key = "c_hs"
          /\ last_rec.seq = 0
          /\ IsFinishedPlain(last_rec.plain)
    /\ last_rec.outer = 20 => (hs_pc = "SENT_FIN" /\ hs_result = "none" /\ skipped >= 1)
    /\ last_rec.outer = 21 => hs_pc = "DEAD"
    /\ (last_rec.outer = 23 /\ (last_rec.key # "c_hs" \/ last_rec.seq # 0)) =>
          hs_pc = "DEAD"
    /\ (last_rec.outer = 23 /\ IsAlertPlain(last_rec.plain)) => hs_pc = "DEAD"

\* C9 witness: a Finished at client sequence 0 was accepted after the largest
\* number of skipped ChangeCipherSpec records.
C9_Witness ==
    /\ hs_result = "Ok"
    /\ skipped = MaxCcs
    /\ last_rec.seq = 0

\* the server flight of the specification, section 4.D steps 4 and 6
SpecifiedFlight ==
    << ServerHelloRecord,
       CcsRecord,
       encrypt_server_record(keys, 0, "EncryptedExtensions", << >>, 22),
       encrypt_server_record(keys, 1, "Certificate", << >>, 22),
       encrypt_server_record(keys, 2, "CertificateVerify", << >>, 22),
       encrypt_server_record(keys, 3, "Finished",
           <<"ClientHello", "ServerHello", "EncryptedExtensions", "Certificate",
             "CertificateVerify">>, 22) >>

\* C10: on a successful handshake the server has written ServerHello, the
\* dummy ChangeCipherSpec and four sealed records with sequence numbers 0, 1,
\* 2, 3: EncryptedExtensions, Certificate, CertificateVerify and a Finished
\* whose verify_data covers the transcript through CertificateVerify.
C10_ServerFlight ==
    hs_result = "Ok" => sent = SpecifiedFlight

\* C11: the application traffic keys are derived from the transcript that
\* runs from ClientHello through the server Finished; the client Finished is
\* not part of it.
C11_AppKeysTranscript ==
    hs_result = "Ok" =>
        /\ Len(app_transcript) >= 2
        /\ app_transcript[1] = "ClientHello"
        /\ app_transcript[Len(app_transcript)] = "Finished"
        /\ \A i \in 1..Len(app_transcript) : app_transcript[i] # "ClientFinished"

\* sequence numbers the nonce construction is tried on (below 2^31)
SeqSamples == {0, 1, 2, 3, 255, 256, 65535, 65536, 16777216, 2147483647}

\* byte i (1..12) of the right-aligned big-endian sequence number; the bytes
\* above the low four are zero for the sample sequence numbers
PaddedSeqByte(seq, i) ==
    IF i <= 8 THEN 0 ELSE (seq \div (256 ^ (12 - i))) % 256

\* the nonce of the specification: the IV, its last 8 bytes XORed with the
\* sequence number written big-endian, its first 4 bytes unchanged
NonceAsSpecified(nonce, iv, seq) ==
    /\ DOMAIN nonce = 1..12
    /\ \A i \in 1..4 : nonce[i] = iv[i]
    /\ \A i \in 5..12 : nonce[i] = Xor8(iv[i], PaddedSeqByte(seq, i))

\* the positions of the records of the server flight sealed under the
\* server handshake key
SealedAt == {i \in 1..Len(sent) : sent[i].key = "s_hs"}

\* C12: the nonce of every record sealed or opened is the IV XOR the
\* sequence number, big-endian in the last 8 bytes; distinct sequence numbers
\* give distinct nonces; no two records of one handshake are sealed under the
\* server key with the same sequence number or the same nonce.
C12_NonceUnique ==
    /\ \A iv \in Ivs : \A s1 \in SeqSamples :
          /\ NonceAsSpecified(Nonce(iv, s1), iv, s1)
          /\ \A s2 \in SeqSamples : s1 # s2 => Nonce(iv, s1) # Nonce(iv, s2)
    /\ \A i \in SealedAt :
          /\ NonceAsSpecified(sent[i].nonce, keys.server_iv, sent[i].seq)
          /\ \A j \in SealedAt :
                i # j => (sent[i].seq # sent[j].seq /\ sent[i].nonce # sent[j].nonce)
    /\ (last_rec.outer = 23 /\ hs_result = "Ok") =>
          NonceAsSpecified(Nonce(keys.client_iv, last_rec.seq), keys.client_iv, 0)

\* C12 witness: the three records of the server flight are sealed and the
\* client Finished was opened.
C12_Witness ==
    /\ Cardinality(SealedAt) = 3
    /\ hs_result = "Ok"

\* C13: when the ClientHello carries no usable X25519 key share perform has
\* failed with nothing written; whatever was written went to a peer whose
\* ClientHello was parsed and carried a 32-byte key share.
C13_NoKeyShareNoBytes ==
    /\ (ch.parsed /\ ~ch.present) =>
          (hs_pc = "DEAD" /\ hs_result = "Err" /\ sent = << >>)
    /\ sent # << >> => (ch.parsed /\ ch.present /\ ch.len = 32)

\* C13 witness: a ClientHello without key share was parsed and perform failed.
C13_Witness ==
    /\ ch.parsed
    /\ ~ch.present
    /\ hs_pc = "DEAD"

\* C14: every handshake terminates: perform ends in APP_READY or in DEAD,
\* also when the peer keeps the connection open and sends nothing more.
C14_HandshakeTerminates ==
    <>(hs_pc \in {"DEAD", "APP_READY"})

(***************************************************************************)
(* Properties of the authentication tag                                    *)
(***************************************************************************)
\* C15: the random returned by inject_auth_into_random has 32 bytes; its
\* first 20 are the first 20 of the original random and its last 12 are the
\* first 12 of HMAC(private key, original[0..20] || client_random).
C15_AuthInjected ==
    auth_call # NoCall =>
        LET out == auth_call.modified_random
            orig == auth_call.original_random
            tag == hmac_sign(auth_call.private_key,
                             SubSeq(orig, 1, 20) \o auth_call.client_random)
        IN /\ Len(out) = 32
           /\ \A i \in 1..20 : out[i] = orig[i]
           /\ \A i \in 1..12 : out[20 + i] = tag[i]

\* C15 witness: a call with an original random whose last 12 bytes are not
\* zero returned a random with another tail.
C15_Witness ==
    /\ auth_call # NoCall
    /\ auth_call.original_random[32] = 255
    /\ auth_call.modified_random # auth_call.original_random

(***************************************************************************)
(* Properties of the XDP classifier                                        *)
(***************************************************************************)
\* a TCP or UDP packet whose destination port is not in ALLOWED_PORTS
ToUnprotectedPort(pkt) ==
    /\ pkt.protocol \in {IPPROTO_TCP, IPPROTO_UDP}
    /\ pkt.dest \notin ALLOWED_PORTS

\* C16: a TCP or UDP packet to a port outside ALLOWED_PORTS gets PASS,
\* whatever its flags, its source and the rate-limit state, and the
\* classifier leaves RATE_LIMIT_MAP as it was.
C16_UnprotectedPortPasses ==
    /\ [](ToUnprotectedPort(xdp_pkt) => verdict = "PASS")
    /\ [][ToUnprotectedPort(xdp_pkt') => RATE_LIMIT_MAP' = RATE_LIMIT_MAP]_vars

\* C16 witness: a SYN+FIN to an unprotected port passed, from a source whose
\* entry is over the limit.
C16_Witness ==
    /\ ToUnprotectedPort(xdp_pkt)
    /\ xdp_pkt.protocol = IPPROTO_TCP
    /\ xdp_pkt.flags = 3
    /\ verdict = "PASS"
    /\ RATE_LIMIT_MAP[xdp_pkt.saddr].count > SYN_LIMIT_PER_SEC

\* the verdict of the n-th SYN of a window
VerdictOfNth(n) == IF n <= SYN_LIMIT_PER_SEC THEN "PASS" ELSE "DROP"

\* C17: of the SYNs of one source to a protected port, the first 50 of the
\* window that starts at the first SYN (or at the last reset) get PASS, the
\* 51st and later get DROP, and the first SYN more than 1 s after the window
\* start gets PASS as the first of a new window.
C17_SynRateLimit ==
    [][\A ip \in SrcIps :
          syn_seen'[ip] # syn_seen[ip] =>
              verdict' = VerdictOfNth(syn_seen'[ip].n)
      ]_vars

\* The rate limit as the classifier keeps it: the same, for the window that
\* starts at the first SYN whose entry could be stored; a SYN of a source
\* without entry that finds the map full gets PASS, leaves the map as it is
\* and starts no window.
SynRateLimitWithRoom ==
    [][\A ip \in SrcIps :
          /\ syn_window'[ip] # syn_window[ip] =>
                /\ verdict' = VerdictOfNth(syn_window'[ip].n)
                /\ RATE_LIMIT_MAP'[ip] =
                       RateLimitEntry(syn_window'[ip].start, syn_window'[ip].n)
          /\ (syn_seen'[ip] # syn_seen[ip] /\ syn_window'[ip] = syn_window[ip]) =>
                /\ insert_fails' = insert_fails + 1
                /\ ~RATE_LIMIT_MAP[ip].present
                /\ verdict' = "PASS"
                /\ RATE_LIMIT_MAP' = RATE_LIMIT_MAP
      ]_vars

\* the 51st SYN of a window that began after a reset was dropped
SynDroppedAfterReset ==
    /\ IsCountedSyn(xdp_pkt)
    /\ verdict = "DROP"
    /\ syn_window[xdp_pkt.saddr] =
           [start |-> NANOS_PER_SEC + 1, n |-> SYN_LIMIT_PER_SEC + 1]

(***************************************************************************)
(* Properties of the upstream task of handle_standalone                    *)
(***************************************************************************)
\* the body bytes body.data() has delivered so far
Delivered == SubSeq(up_stream, 1, up_pos)

\* C18: in a Standalone stream with is_grpc set whose first chunk starts with
\* a byte that is neither 0x00 nor 0x01, gRPC deframing is disabled and every
\* body byte delivered, that first byte included, is in the duplex pipe
\* verbatim (unless a read or a write failed and ended the task).
C18_RawFallback ==
    (up_is_grpc /\ up_first > 0 /\ up_stream[1] \notin {0, 1})
        => /\ ~use_grpc_framing
           /\ (up_pc # "FAILED" => client_write = Delivered)

\* a body whose first byte is neither 0 nor 1 arrived in several chunks, the
\* first not empty, and all of it was forwarded
C18_Witness ==
    /\ up_is_grpc
    /\ up_first > 0
    /\ up_first < Len(up_stream)
    /\ up_stream[1] \notin {0, 1}
    /\ up_pc = "DONE"
    /\ ~use_grpc_framing
    /\ client_write = up_stream

\* the concatenated payloads of the complete frames at the head of bytes
RECURSIVE Payloads(_)
Payloads(bytes) ==
    IF Len(bytes) < 5 THEN << >>
    ELSE LET n == from_be_bytes(SubSeq(bytes, 2, 5))
         IN  IF Len(bytes) < 5 + n THEN << >>
             ELSE SubSeq(bytes, 6, 5 + n)
                     \o Payloads(SubSeq(bytes, 6 + n, Len(bytes)))

\* the largest message the deframer is specified to take: 16 MiB
SpecifiedMaxMessage == 16 * 1024 * 1024

\* request bodies that are sequences of gRPC frames, or the start of one whose
\* last frame declares a long message of at most 16 MiB
GrpcBodies ==
    FrameSeqs(MaxFrames)
        \cup { LongFrameStart(n) :
                  n \in { m \in LongLengths : m <= SpecifiedMaxMessage } }
        \cup { Frame(0, << 65 >>) \o LongFrameStart(65536) }

\* C19: in gRPC mode, for a body made of gRPC frames, the bytes written to the
\* duplex pipe are the concatenated payloads of the frames delivered, whatever
\* the chunks the body arrives in (every split of the body is a behaviour).
C19_DeframedPayloads ==
    (up_is_grpc /\ up_stream \in GrpcBodies /\ up_pc \in {"READING", "DONE"})
        => client_write = Payloads(Delivered)

\* the same for the frames that declare at most 65535 bytes
DeframedPayloadsBelow64K ==
    (/\ up_is_grpc
     /\ up_stream \in FrameSeqs(MaxFrames) \cup { LongFrameStart(65535) }
     /\ up_pc \in {"READING", "DONE"})
        => client_write = Payloads(Delivered)

\* a body of two frames with payloads, delivered in more than one chunk, was
\* deframed to its payloads
DeframedInChunks ==
    /\ up_is_grpc
    /\ up_stream = Frame(0, << 65 >>) \o Frame(1, << 1, 0 >>)
    /\ up_first > 0
    /\ up_first < 5
    /\ up_pc = "DONE"
    /\ client_write = << 65, 1, 0 >>

\* C20: gRPC mode is disabled because of a declared message length only when
\* that length exceeds 16 MiB; a frame declaring at most 16 MiB is deframed.
C20_DisabledOnlyAbove16MiB ==
    up_bad_len # -1 => up_bad_len > SpecifiedMaxMessage

\* a declared length above 16 MiB disabled gRPC mode and the buffer was
\* flushed raw
DisabledAbove16MiB ==
    /\ up_is_grpc
    /\ up_bad_len > SpecifiedMaxMessage
    /\ ~use_grpc_framing
    /\ up_stream = LongFrameStart(16777217)
    /\ client_write = up_stream

(***************************************************************************)
(* Properties of send_split_data                                           *)
(***************************************************************************)
\* C22: while every send succeeds, the chunks send_split_data emitted are
\* non-empty, none longer than the 16384-byte frame size, they and the bytes
\* left in the buffer concatenate to the original content, and the counter grew
\* by the number of bytes emitted; on Ok the buffer is empty, so the chunks
\* alone are the original content.
C22_SplitPreservesBytes ==
    split_pc \in {"LOOP", "OK"}
        => /\ \A i \in 1..Len(split_sent) :
                 Len(split_sent[i]) > 0 /\ Len(split_sent[i]) <= 16384
           /\ Concat(split_sent) \o split_src = split_orig
           /\ split_counter = split_counter0 + Len(Concat(split_sent))
           /\ (split_pc = "OK" => split_src = << >>)

\* the longest buffer went out in three chunks or more
C22_Witness ==
    /\ split_pc = "OK"
    /\ Len(split_orig) = MaxSplitLen
    /\ Len(split_sent) >= 3
    /\ Concat(split_sent) = split_orig

(***************************************************************************)
(* Properties of the downstream task of handle_standalone                  *)
(***************************************************************************)
\* the data frames of the response, and the bytes they carry in order
DataFrames == SelectSeq(send_stream, LAMBDA f : f.kind = "data")

SentBytes == Concat([i \in 1..Len(DataFrames) |-> DataFrames[i].bytes])

\* the response the chunks read so far make when each is one gRPC frame, and
\* when each is sent raw
FramedLog == Concat([i \in 1..Len(down_log) |-> Frame(0, down_log[i])])

RawLog == Concat(down_log)

\* the response of a gRPC stream: one frame for each chunk, no END_STREAM data
\* frame, and the grpc-status: 0 trailers at its end
GrpcResponse ==
    /\ SentBytes = FramedLog
    /\ \A i \in 1..Len(send_stream) :
          send_stream[i] = GrpcStatusTrailers
              <=> (down_pc = "DONE" /\ i = Len(send_stream))
    /\ \A i \in 1..Len(send_stream) :
          send_stream[i].kind = "data" => ~send_stream[i].end_stream

\* the response of a raw stream: the chunks as they were read, no trailers, and
\* exactly one empty END_STREAM data frame, the last frame of the response
RawResponse ==
    /\ SentBytes = RawLog
    /\ \A i \in 1..Len(send_stream) :
          /\ send_stream[i].kind = "data"
          /\ send_stream[i].end_stream
                <=> (down_pc = "DONE" /\ i = Len(send_stream))
          /\ send_stream[i].end_stream => send_stream[i].bytes = << >>

\* C21: while the downstream task runs and when it is done, the response of a
\* Standalone stream whose content-type contains "grpc" is the gRPC response,
\* and the response of a stream without it is the raw response.
C21_DownFraming ==
    down_pc \in {"LOOP", "DONE"}
        => IF up_is_grpc THEN GrpcResponse ELSE RawResponse

\* the same, for the streams whose upstream task has not disabled gRPC mode
DownFramingByFlag ==
    (down_pc \in {"LOOP", "DONE"} /\ use_grpc_framing = up_is_grpc)
        => IF up_is_grpc THEN GrpcResponse ELSE RawResponse

\* a gRPC stream answered with two frames and the trailers
GrpcResponseSent ==
    /\ up_is_grpc
    /\ use_grpc_framing
    /\ down_pc = "DONE"
    /\ Len(down_log) = 2
    /\ GrpcResponse

\* a raw stream answered with its chunks and the END_STREAM frame
RawResponseSent ==
    /\ ~up_is_grpc
    /\ down_pc = "DONE"
    /\ Len(down_log) = 2
    /\ RawResponse

(***************************************************************************)
(* Properties of the x-padding header                                      *)
(***************************************************************************)
\* the range the padding length is specified to lie in
SpecifiedPadding(total) == IF total < 1048576 THEN 64..512 ELSE 16..32

\* C23 (as stated): every 200 response carries a padding of 64 to 512 bytes
\* while the counter is below 1 MiB and of 16 to 32 bytes from 1 MiB on.
C23_AdaptivePadding ==
    pad_resp.route \in PadRoutes
        => pad_resp.x_padding \in SpecifiedPadding(pad_resp.traffic)

\* C23 (amended): the padding of the SplitUp response follows the counter (64
\* to 511 bytes below 1 MiB, 16 to 31 from 1 MiB on); the SplitDown and the
\* Standalone response carry 64 to 511 bytes whatever the counter.
C23_AdaptivePaddingSplitUp ==
    /\ pad_resp.route = "SplitUp"
          => pad_resp.x_padding
                \in (IF pad_resp.traffic < 1048576 THEN 64..511 ELSE 16..31)
    /\ pad_resp.route \in {"SplitDown", "Standalone"}
          => pad_resp.x_padding \in 64..511

\* a SplitUp response built at exactly 1 MiB of traffic with a short padding
C23_Witness ==
    /\ pad_resp.route = "SplitUp"
    /\ pad_resp.traffic = 1048576
    /\ pad_resp.x_padding \in 16..31

\* a SplitDown response built after 1 MiB of traffic with a long padding
LongPaddingAfterOneMiB ==
    /\ pad_resp.route = "SplitDown"
    /\ pad_resp.traffic >= 1048576
    /\ pad_resp.x_padding > 32

(***************************************************************************)
(* Properties of the accept loop: stream errors                            *)
(***************************************************************************)
\* C24: the active-stream count is the number of accepted streams whose
\* handler has not ended (one increment at accept, one decrement at the end,
\* Ok or Err); a handler that ends, with an error or not, changes neither the
\* accept loop nor any other stream; and whatever handlers failed, the loop
\* waiting in select! can accept the next stream.
C24_StreamErrorIsLocal ==
    /\ [](active_streams = Cardinality({s \in Stream : task[s] = "running"}))
    /\ [][\A s \in Stream :
             (task[s] = "running" /\ task'[s] \in {"ok", "err"})
                 => /\ loop_pc' = loop_pc
                    /\ active_streams' = active_streams - 1
                    /\ \A q \in Stream \ {s} : task'[q] = task[q]]_vars
    /\ []((loop_pc = "select" /\ \E s \in Stream : task[s] = "none")
             => ENABLED (\E s \in Stream :
                            AcceptStream(s) /\ UNCHANGED othersConn))

\* one handler ended with an error, another stream is running and the loop is
\* waiting for the next
C24_Witness ==
    /\ task[1] = "err"
    /\ task[2] = "running"
    /\ active_streams = 1
    /\ loop_pc = "select"

(***************************************************************************)
(* Properties of the GC loop                                               *)
(***************************************************************************)
\* t is older than now minus 180 s
OlderThan180s(t, now) ==
    \/ t.sec + 180 < now.sec
    \/ (t.sec + 180 = now.sec /\ t.nsec < now.nsec)

\* the keys a pass has to delete: those it read with a last_time_ns older than
\* its now minus 180 s
StaleKeys ==
    { k \in GcIps : gc_read[k].read
                       /\ OlderThan180s(gc_read[k].last_time_ns, gc_now) }

\* C25: a finished GC pass that read /proc/uptime has removed exactly the keys
\* whose last_time_ns, as the pass read it, is older than now minus 180 s, and
\* every other entry it read is still in the map; a pass that could not read
\* or parse /proc/uptime has removed nothing.
C25_GcPass ==
    gc_pc = "DONE"
        => /\ gc_uptime = "ok" => gc_removed = StaleKeys
           /\ gc_uptime # "ok" => gc_removed = {}
           /\ \A k \in GcIps :
                 (gc_read[k].read /\ k \notin StaleKeys) => gc_map[k].present

\* a pass at 400.50 s removed the entry one nanosecond older than 220.5 s and
\* kept the entry last written at 220.5 s sharp
C25_Witness ==
    /\ gc_pc = "DONE"
    /\ gc_uptime = "ok"
    /\ gc_now = Ns(400, 500000000)
    /\ gc_read[1].read
    /\ gc_read[1].last_time_ns = Ns(220, 499999999)
    /\ gc_removed = {1}
    /\ gc_read[2].read
    /\ gc_read[2].last_time_ns = Ns(220, 500000000)
    /\ gc_map[2].present

(***************************************************************************)
(* Properties of the XDP loader                                            *)
(***************************************************************************)
\* C26: while the program is attached ALLOWED_PORTS holds every listening
\* VLESS port, and no packet was classified while one was missing.
C26_PortsBeforeAttach ==
    /\ ld_attached
          => \A i \in 1..Len(VlessPorts) : VlessPorts[i] \in ld_ports
    /\ ld_pkt.missing = {}

\* a packet to a listening port was classified before the port was inserted
ClassifiedUnprotected ==
    /\ ld_pkt.port = 443
    /\ ~ld_pkt.protected
    /\ ld_pc = "ATTACHED"

(***************************************************************************)
(* Properties of the Certificate message of the handshake                  *)
(***************************************************************************)
\* the Certificate record was sealed at server sequence 1 and written
CertificateSent ==
    \E i \in 1..Len(sent) : sent[i].msg = "Certificate" /\ sent[i].seq = 1

\* C27: the Certificate message sealed at server sequence 1 is the message the
\* certificate fetcher obtained from config.dest whenever that fetch succeeds;
\* the message with the empty certificate list is sent only when it fails.
C27_FetchedCertificateSent ==
    CertificateSent
        => /\ dest_cert.ok => cert_msg = dest_cert.msg
           /\ cert_msg = EmptyCertificate => ~dest_cert.ok

\* the empty Certificate went out although the fetch from dest succeeds, and
\* the handshake went on to its end
EmptyCertificateDespiteFetch ==
    /\ CertificateSent
    /\ dest_cert.ok
    /\ cert_msg = EmptyCertificate
    /\ hs_pc = "APP_READY"

(***************************************************************************)
(* C28: verify_client_auth returns true only when the leading 8 bytes of   *)
(* session_id equal the leading 8 bytes of HMAC-SHA256(private_key,        *)
(* client_random): a full 8 bytes of the tag must match, and an empty      *)
(* session_id is rejected.                                                 *)
(***************************************************************************)
VerifyCalled == verify_call # NoVerify

VerifyTag == hmac_sign(verify_call.private_key, verify_call.client_random)

C28_FullEightBytes ==
    VerifyCalled =>
        /\ verify_call.result =>
               /\ Len(verify_call.session_id) >= 8
               /\ SubSeq(verify_call.session_id, 1, 8) = SubSeq(VerifyTag, 1, 8)
        /\ verify_call.session_id = << >> => ~verify_call.result

\* what the code accepts: the bytes that are there, up to 8 of them, match
C28_PrefixCompared ==
    VerifyCalled =>
        (verify_call.result <=>
            /\ verify_call.session_id # << >>
            /\ \A i \in 1..Len(verify_call.session_id) :
                   i <= 8 => verify_call.session_id[i] = VerifyTag[i])

\* a session id of one byte is accepted
ShortSessionIdAccepted ==
    /\ VerifyCalled
    /\ Len(verify_call.session_id) = 1
    /\ verify_call.result

\* an empty session id was presented and rejected
EmptySessionIdRejected ==
    /\ VerifyCalled
    /\ verify_call.session_id = << >>
    /\ ~verify_call.result

(***************************************************************************)
(* C29: after a record is decrypted to content || type || zero padding     *)
(* with a non-zero type byte, decrypt_client_record returns (type, length   *)
(* of content) for any amount of padding including none; it never returns   *)
(* 0 as the inner content type, so a plaintext that is empty or consists    *)
(* only of zero bytes is an error.                                          *)
(***************************************************************************)
DecryptCalled == dec_call # NoDecrypt

\* the record of the call was opened: its tag verified
DecryptOpened ==
    /\ DecryptCalled
    /\ AeadOpen(dec_call.rec, "c_hs", dec_call.self.client_iv,
                Nonce(dec_call.self.client_iv, dec_call.seq))

\* plain is content of n bytes, a non-zero type byte t, then zeros only
IsInnerPlaintext(plain, n, t) ==
    /\ n < Len(plain)
    /\ plain[n + 1] = t
    /\ t # 0
    /\ \A i \in (n + 2)..Len(plain) : plain[i] = 0

\* the first half: the type and the content length come back
C29_TypeAndLength ==
    DecryptOpened =>
        \A n \in 0..Len(dec_call.rec.plain), t \in 1..255 :
            IsInnerPlaintext(dec_call.rec.plain, n, t) =>
                dec_call.ret = [ok |-> TRUE, ctype |-> t, plen |-> n]

\* the second half: Ok never carries type 0
C29_NeverTypeZero ==
    DecryptOpened =>
        /\ dec_call.ret.ok => dec_call.ret.ctype # 0
        /\ (\A i \in 1..Len(dec_call.rec.plain) : dec_call.rec.plain[i] = 0)
               => ~dec_call.ret.ok

C29_DecryptInnerType == C29_TypeAndLength /\ C29_NeverTypeZero

\* a plaintext of zero bytes only came back as Ok((0, 0))
ZeroTypeReturned ==
    /\ DecryptOpened
    /\ Len(dec_call.rec.plain) > 0
    /\ \A i \in 1..Len(dec_call.rec.plain) : dec_call.rec.plain[i] = 0
    /\ dec_call.ret = [ok |-> TRUE, ctype |-> 0, plen |-> 0]

\* an empty plaintext was an error
EmptyPlaintextIsError ==
    /\ DecryptOpened
    /\ dec_call.rec.plain = << >>
    /\ ~dec_call.ret.ok

\* a padded plaintext whose content ends in a zero byte was taken apart
PaddedTypeReturned ==
    /\ DecryptOpened
    /\ dec_call.rec.plain = <<7, 0, 22, 0, 0>>
    /\ dec_call.ret = [ok |-> TRUE, ctype |-> 22, plen |-> 2]

(***************************************************************************)
(* C30: for every Address a that is IPv4, IPv6 or Domain with a domain of  *)
(* 1 to 255 bytes, and every port 0..65535, decoding the bytes produced by *)
(* a.encode yields a value equal to a and consumes exactly the encoded     *)
(* bytes.                                                                  *)
(***************************************************************************)
\* the address of the round trip is one the claim speaks of
InClaimedRange(a) ==
    /\ a.port \in 0..65535
    /\ a.kind = "Domain" => Len(a.host) >= 1 /\ Len(a.host) <= U8Max

C30_AddressRoundTrip ==
    (addr_pc = "ROUNDTRIP" /\ InClaimedRange(addr_self)) =>
        /\ addr_decoded.ok
        /\ addr_decoded.addr = addr_self
        /\ addr_buf = addr_tail

\* a domain of 255 bytes with the highest port went round, bytes following
C30_Witness ==
    /\ addr_pc = "ROUNDTRIP"
    /\ addr_self.kind = "Domain"
    /\ Len(addr_self.host) = U8Max
    /\ addr_self.port = 65535
    /\ addr_tail = << 1, 2, 3 >>
    /\ addr_decoded.addr = addr_self
    /\ addr_buf = addr_tail

\* outside the range: a domain of 256 bytes does not come back
LongDomainMangled ==
    /\ addr_pc = "ROUNDTRIP"
    /\ Len(addr_self.host) = U8Max + 1
    /\ addr_decoded.ok
    /\ addr_decoded.addr # addr_self

(***************************************************************************)
(* C31: ConnectionManager::active_count() is 0 for a new manager and at    *)
(* every moment equals the number of connections passed to                 *)
(* handle_connection whose relay task has not yet finished; it never       *)
(* underflows and returns to 0 once all relays have finished, whether they *)
(* ended successfully or with an error.                                    *)
(***************************************************************************)
\* ConnectionManager::active_count
active_count == active_connections

RelayTasksRunning == { c \in Conns : mgr_task[c].pc \in {"RELAY", "RELAYED"} }

C31_ActiveCount ==
    /\ active_count = Cardinality(RelayTasksRunning)
    /\ active_count >= 0
    /\ (\A c \in Conns : mgr_task[c].pc = "NEW") => active_count = 0
    /\ RelayTasksRunning = {} => active_count = 0

\* one relay task has finished after an error, one after a clean end, and a
\* third is still running
C31_Witness ==
    /\ \E c \in Conns : mgr_task[c].pc = "DONE" /\ mgr_task[c].res = "err"
    /\ \E c \in Conns : mgr_task[c].pc = "DONE" /\ mgr_task[c].res = "ok"
    /\ \E c \in Conns : mgr_task[c].pc = "RELAY"
    /\ active_count = 1

(***************************************************************************)
(* C32: a SplitDown handler's cleanup removes only the Session that this   *)
(* handler itself registered: when two GETs for the same path overlap in   *)
(* time, the end of one of them (explicit remove or guard drop) never      *)
(* removes the registry entry belonging to the other, still running, GET.  *)
(***************************************************************************)
\* the GET r is in handle_xhttp_get and has not reached its cleanup
GetRunning(r) == pc[r] \in {"get_respond", "get_down"}

\* in this step the entry of path p, registered by the GET g, is removed
RemovedEntry(p, g) == SESSIONS[p] = g /\ g # 0 /\ SESSIONS'[p] = 0

\* an entry is removed only in a step of the GET that registered it
C32_CleanupRemovesOwnSession ==
    [][\A p \in Paths, g \in Req :
           RemovedEntry(p, g) => pc'[g] # pc[g]]_vars

\* a GET is running behind a path it registered last, and the entry is gone
ForeignSessionRemoved ==
    \E g \in Req, h \in Req :
        /\ g # h
        /\ GetRunning(g)
        /\ pc[h] \in {"get_join", "ok", "err", "cancelled"}
        /\ route[h] = "SplitDown"
        /\ SESSIONS[req[g].path] = 0

(***************************************************************************)
(* C33: upload data is never silently discarded: while a Session for a     *)
(* path is present in SESSIONS its upstream pump is still receiving, so    *)
(* every chunk a SplitUp POST sends on the cloned sender is accepted by a  *)
(* live receiver; a SplitUp POST never answers 200 after one of its chunks *)
(* was dropped because the receiver was gone.                              *)
(***************************************************************************)
\* every registered Session has a live receiver
SessionHasReceiver ==
    \A p \in Paths : SESSIONS[p] # 0 => RxAlive(SESSIONS[p])

\* the POST r sends a chunk in this step
PostSends(r) == pc[r] = "post_body" /\ body'[r] = body[r] + 1

\* a chunk is sent to a live receiver only, so tx.send never returns the Err
\* that handle_xhttp_post ignores before it answers 200
ChunkAccepted ==
    \A r \in Req : PostSends(r) => RxAlive(tx[r])

C33_UploadNeverDiscarded ==
    /\ []SessionHasReceiver
    /\ [][ChunkAccepted]_vars

\* the second half by itself
C33_ChunkAccepted == [][ChunkAccepted]_vars

\* a Session is registered whose upstream pump has ended
SessionWithoutReceiver ==
    \E p \in Paths :
        /\ SESSIONS[p] # 0
        /\ upstream[SESSIONS[p]] = "ended"

\* a POST holds the sender of a channel whose receiver is gone; it has sent
\* a chunk and has another one to send
PostSendsToDeadReceiver ==
    \E r \in Req :
        /\ pc[r] = "post_body"
        /\ ~RxAlive(tx[r])
        /\ body[r] > 0
        /\ body[r] < MaxChunks

(***************************************************************************)
(* C34: when SYN packets from the same source IP are classified            *)
(* concurrently on several CPUs, the per-IP limit still holds: in any one  *)
(* window at most 50 SYNs from that IP receive PASS, because no increment  *)
(* of the shared counter is lost and two CPUs that both find the IP absent *)
(* do not each start a fresh count.                                        *)
(***************************************************************************)
\* no CPU is between its lookup and its store
CpusIdle == \A c \in Cpus : cpu[c].pc = "IDLE"

C34_ConcurrentSynLimit ==
    /\ smp_passed <= SYN_LIMIT_PER_SEC
    /\ ~smp_lost
    /\ CpusIdle /\ smp_entry.present => smp_entry.count = smp_syns

\* the parts by themselves
C34_AtMostFiftyPass == smp_passed <= SYN_LIMIT_PER_SEC

C34_NoIncrementLost == ~smp_lost

\* 51 SYNs of one second got PASS
FiftyOnePassed == CpusIdle /\ smp_passed = SYN_LIMIT_PER_SEC + 1

\* two CPUs both found the source absent and both stored a count of 1
TwoFreshCounts ==
    /\ CpusIdle
    /\ smp_syns = 2
    /\ smp_passed = 2
    /\ smp_entry.count = 1

(***************************************************************************)
(* C35: GC never deletes an entry that is fresh at the moment of deletion: *)
(* if the kernel resets or creates an entry for an IP (a new SYN) between  *)
(* the GC's key-collection phase and its deletion phase, that entry is     *)
(* kept, so an IP's SYN count inside a running window is never reset by    *)
(* GC.                                                                     *)
(***************************************************************************)
\* the entry of k is deleted in this step
GcDeletes(k) == gc_map[k].present /\ ~gc_map'[k].present

\* an entry is stale, by the threshold of the pass, when it is deleted
C35_GcKeepsFreshEntry ==
    [][\A k \in GcIps :
           GcDeletes(k) => IsStale(gc_map[k], threshold_ns)]_vars

\* the pass has collected the key of an entry that the classifier has since
\* reset and counted a second SYN in; the removal of the key is what the pass
\* does next
FreshEntryCollected ==
    \E k \in GcIps :
        /\ gc_pc = "REMOVE"
        /\ k \in keys_to_remove
        /\ gc_read[k].read
        /\ NsLess(gc_read[k].last_time_ns, threshold_ns)
        /\ gc_map[k].present
        /\ gc_map[k].last_time_ns = GcClock[gc_tick]
        /\ gc_map[k].count = 2
        /\ ~IsStale(gc_map[k], threshold_ns)

(***************************************************************************)
(* C37: within one Standalone stream the downstream framing never changes  *)
(* mid-stream: the gRPC flag only ever goes from enabled to disabled, and  *)
(* if any downstream chunk was emitted as a gRPC frame then every          *)
(* downstream chunk of that stream is a gRPC frame and the stream ends     *)
(* with the grpc-status trailer, even when the upstream task disables gRPC *)
(* mode while the downstream task is running.                              *)
(***************************************************************************)
\* the ways to emit the chunks read so far: each framed (TRUE) or raw
Framings == [1..Len(down_log) -> BOOLEAN]

EmittedAs(m) ==
    Concat([i \in 1..Len(down_log) |->
               IF m[i] THEN Frame(0, down_log[i]) ELSE down_log[i]])

\* some chunk of the response went out as a gRPC frame
SomeChunkFramed ==
    \E m \in Framings : EmittedAs(m) = SentBytes /\ \E i \in DOMAIN m : m[i]

\* every chunk of the response went out as a gRPC frame
EveryChunkFramed == SentBytes = FramedLog

\* the flag is never enabled again once the stream has started
FlagOnlyDisabled == (up_pc # "IDLE" /\ use_grpc_framing') => use_grpc_framing

FramingKept ==
    (down_pc \in {"LOOP", "DONE"} /\ SomeChunkFramed) =>
        /\ EveryChunkFramed
        /\ down_pc = "DONE" =>
               send_stream[Len(send_stream)] = GrpcStatusTrailers

C37_FramingNeverChanges == [][FlagOnlyDisabled]_vars /\ []FramingKept

\* the first half by itself
C37_FlagOnlyDisabled == [][FlagOnlyDisabled]_vars

\* a finished response whose first chunk is a gRPC frame and whose second
\* chunk is raw
MixedFraming ==
    /\ down_pc = "DONE"
    /\ Len(down_log) = 2
    /\ SentBytes = Frame(0, down_log[1]) \o down_log[2]

\* a finished response of gRPC frames that ends with an END_STREAM data frame
FramedWithoutTrailers ==
    /\ down_pc = "DONE"
    /\ Len(down_log) > 0
    /\ EveryChunkFramed
    /\ send_stream[Len(send_stream)] = DataFrame(<< >>, TRUE)

(***************************************************************************)
(* C36: in Standalone mode the two directions are linked: when either the  *)
(* upstream task or the downstream task ends or fails, the other one is    *)
(* stopped too and the handler returns, releasing the HTTP/2 stream; the   *)
(* handler does not keep waiting on the remaining direction for as long as *)
(* the peer or the VLESS handler keeps it open.                            *)
(***************************************************************************)
UpTaskEnded == up_pc \in {"DONE", "FAILED"}

DownTaskEnded == down_pc \in {"DONE", "FAILED"}

\* let _ = down_task.await; let _ = up_handle.await; Ok(())
StandaloneReturned == DownTaskEnded /\ UpTaskEnded

C36_DirectionsLinked ==
    /\ UpTaskEnded ~> StandaloneReturned
    /\ DownTaskEnded ~> StandaloneReturned

\* the upstream task has ended; the downstream task waits in read_buf on a
\* pipe that is empty and that the VLESS handler keeps open
UpEndedDownWaits ==
    /\ UpTaskEnded
    /\ down_pc = "LOOP"
    /\ client_read = << >>
    /\ server_io_open

\* the downstream task has ended; the upstream task waits in body.data() for
\* a body the peer has not ended
DownEndedUpWaits ==
    /\ DownTaskEnded
    /\ up_pc = "READING"
    /\ up_pos = Len(up_stream)

(***************************************************************************)
(* C38: the zombie watchdog closes a connection only if no stream handler  *)
(* of that connection was running at any moment of the preceding 300 s:    *)
(* the 300 s timer is armed only when the active-stream count is zero and  *)
(* restarts whenever a new stream is accepted, so a connection with a      *)
(* running stream is never closed by the watchdog.                         *)
(***************************************************************************)
\* the sleep of this select! is pending
TimerArmed == loop_pc = "select" /\ is_idle

\* the sleep branch of this select! is ready: the watchdog closes now
WatchdogDue == TimerArmed /\ sleep_elapsed >= WatchdogSecs

NoStreamRunning == \A s \in Stream : task[s] # "running"

\* while the timer is armed no stream runs, and the count has been zero for
\* as long as the timer has been pending
ArmedOnlyWhenIdle ==
    TimerArmed =>
        /\ NoStreamRunning
        /\ active_streams = 0
        /\ zero_for >= sleep_elapsed

C38_WatchdogSparesRunningStreams ==
    /\ []ArmedOnlyWhenIdle
    /\ [](WatchdogDue => zero_for >= WatchdogSecs)
    /\ [][\A s \in Stream :
              (task[s] = "none" /\ task'[s] = "running") => ~TimerArmed']_vars

\* a connection that served two streams was closed when its watchdog was due
C38_Witness ==
    /\ loop_pc = "closed"
    /\ is_idle
    /\ sleep_elapsed >= WatchdogSecs
    /\ zero_for >= WatchdogSecs
    /\ \A s \in Stream : task[s] \in {"ok", "err"}

\* an IPv4 TCP packet, whole, to a protected port
ToProtectedTcp(pkt) ==
    /\ pkt.etype = ETH_P_IP
    /\ ~pkt.truncated
    /\ pkt.protocol = IPPROTO_TCP
    /\ pkt.dest \in ALLOWED_PORTS

\* SYN with FIN, or SYN with RST
IllegalFlags(flags) ==
    \/ And8(flags, 2) # 0 /\ And8(flags, 1) # 0
    \/ And8(flags, 2) # 0 /\ And8(flags, 4) # 0

\* not a new-connection attempt: SYN unset, or SYN together with ACK
NotNewConnection(flags) == And8(flags, 2) = 0 \/ And8(flags, 16) # 0

\* the packets of the claim
EstablishedTraffic(pkt) ==
    /\ ToProtectedTcp(pkt)
    /\ ~IllegalFlags(pkt.flags)
    /\ NotNewConnection(pkt.flags)

\* C39: a TCP packet to a protected port that is no new-connection attempt
\* and has no illegal flag combination gets PASS whatever the rate-limit
\* state of its source, and the classifier leaves RATE_LIMIT_MAP as it was.
C39_EstablishedTrafficPasses ==
    /\ [](EstablishedTraffic(xdp_pkt) => verdict = "PASS")
    /\ [][EstablishedTraffic(xdp_pkt') => RATE_LIMIT_MAP' = RATE_LIMIT_MAP]_vars

\* C39 witness: a SYN+ACK to a protected port passed, from a source whose
\* SYNs are being dropped within the current window.
C39_Witness ==
    /\ EstablishedTraffic(xdp_pkt)
    /\ xdp_pkt.flags = 18
    /\ verdict = "PASS"
    /\ RATE_LIMIT_MAP[xdp_pkt.saddr].present
    /\ RATE_LIMIT_MAP[xdp_pkt.saddr].count > SYN_LIMIT_PER_SEC
    /\ ktime <= RATE_LIMIT_MAP[xdp_pkt.saddr].last_time_ns + NANOS_PER_SEC

\* a SYN of source ip was classified in this step
SynClassified(ip) == syn_seen'[ip] # syn_seen[ip]

\* C40: the rate limit applies to a source whether or not the map has room
\* for it: of the SYNs a source sends to a protected port within one second,
\* those beyond the 50th get DROP, also when the first of them found
\* RATE_LIMIT_MAP holding max_entries entries and the source not among them.
C40_FullMapStillLimits ==
    [][\A ip \in SrcIps :
          (SynClassified(ip) /\ syn_seen'[ip].n > SYN_LIMIT_PER_SEC) =>
              verdict' = "DROP"
      ]_vars

\* C40, the step itself: a SYN of a source without entry creates its entry,
\* so that the SYNs after it are counted.
C40_UntrackedSynStartsCount ==
    [][\A ip \in SrcIps :
          (SynClassified(ip) /\ ~RATE_LIMIT_MAP[ip].present) =>
              RATE_LIMIT_MAP'[ip] = RateLimitEntry(ktime, 1)
      ]_vars

\* a SYN of a source without entry found the map full: it passed and the
\* source is still without entry
FullMapSynUntracked ==
    /\ IsCountedSyn(xdp_pkt)
    /\ insert_fails > 0
    /\ verdict = "PASS"
    /\ ~RATE_LIMIT_MAP[xdp_pkt.saddr].present
    /\ syn_seen[xdp_pkt.saddr].n = 1

\* the 51st SYN of one second passed, the first of them having found the map
\* full
FiftyFirstSynPassedAfterFullMap ==
    /\ IsCountedSyn(xdp_pkt)
    /\ insert_fails > 0
    /\ syn_seen[xdp_pkt.saddr].n = SYN_LIMIT_PER_SEC + 1
    /\ syn_window[xdp_pkt.saddr].n = SYN_LIMIT_PER_SEC
    /\ syn_window[xdp_pkt.saddr].start = syn_seen[xdp_pkt.saddr].start
    /\ verdict = "PASS"

====
